---- MODULE Spec2Model ----
(***************************************************************************)
(* Trajectory & Graph Engine of the PCK assistant.                         *)
(*                                                                         *)
(* The store (tables of src/api/src/services/trajectory.ts:724-920), the   *)
(* TrajectoryEngine (trajectory.ts:93-708) and the per-turn orchestrator   *)
(* AgentService.processMessageStream (agent.ts:514-853), and one request   *)
(* of the chat and chatStream handlers (index.ts:123-183) with the events  *)
(* it yields, its cancellation signal and its failures.                    *)
(*                                                                         *)
(* Text is a sequence of one-character strings, so that toLowerCase, trim  *)
(* and the two tag regular expressions are computed, not assumed.          *)
(* Opaque ids (nanoid) are natural numbers handed out in order of          *)
(* creation; the lexicographic order of two entity ids is the order of the *)
(* numbers, and entities are mentioned in either order of their ids.       *)
(* Timestamps are kept only as set / not set.                              *)
(***************************************************************************)
EXTENDS Integers, Sequences, FiniteSets, TLC

\* ------------------------------------------------------------------ bounds
MaxCalls == 6          \* engine calls in one behaviour of Spec
MaxTrajectories == 2   \* trajectories started in one behaviour of Spec
MaxEvents == 3         \* event rows per trajectory in Spec
MaxTurns == 2          \* chat turns in one behaviour of SpecChat
MaxWorkerCalls == 1    \* findOrCreateEntity calls of one caller in SpecConc
MaxClockTicks == 1     \* clock ticks during one request of SpecRequest
MaxHistory == 2        \* past chat turns in one behaviour of SpecReason
MaxTextLen == 7        \* characters of a text of SpecTags

Accounts == {"alice.near", "bob.near"}

\* null of a nullable text column / an absent optional string argument
NULL == <<>>
\* null of a nullable id column / an absent optional id argument
NoId == 0
\* Date.now() when a request arrives, in milliseconds; the readings of one
\* request keep the number of digits of this one
ClockStart == 100

\* ------------------------------------------------------------------- text
Str_topic == <<"t","o","p","i","c">>
Str_strategy == <<"s","t","r","a","t","e","g","y">>
Str_outcome == <<"o","u","t","c","o","m","e">>
Str_leads_to == <<"l","e","a","d","s","_","t","o">>

UpperChars == {"A","B","C","D","E","F","G","H","I","J","K","L","M","N","O",
               "P","Q","R","S","T","U","V","W","X","Y","Z"}
LowerChars == {"a","b","c","d","e","f","g","h","i","j","k","l","m","n","o",
               "p","q","r","s","t","u","v","w","x","y","z"}
DigitChars == {"0","1","2","3","4","5","6","7","8","9"}
\* \w of a JavaScript regular expression
WordChars == UpperChars \cup LowerChars \cup DigitChars \cup {"_"}
\* the white space String.prototype.trim removes (of the characters used)
SpaceChars == {" ", "\t", "\n"}

LowerChar(c) ==
  CASE c = "A" -> "a" [] c = "B" -> "b" [] c = "C" -> "c" [] c = "D" -> "d"
    [] c = "E" -> "e" [] c = "F" -> "f" [] c = "G" -> "g" [] c = "H" -> "h"
    [] c = "I" -> "i" [] c = "J" -> "j" [] c = "K" -> "k" [] c = "L" -> "l"
    [] c = "M" -> "m" [] c = "N" -> "n" [] c = "O" -> "o" [] c = "P" -> "p"
    [] c = "Q" -> "q" [] c = "R" -> "r" [] c = "S" -> "s" [] c = "T" -> "t"
    [] c = "U" -> "u" [] c = "V" -> "v" [] c = "W" -> "w" [] c = "X" -> "x"
    [] c = "Y" -> "y" [] c = "Z" -> "z" [] OTHER -> c

toLowerCase(s) == [k \in 1..Len(s) |-> LowerChar(s[k])]

RECURSIVE trimStart(_)
trimStart(s) ==
  IF s # <<>> /\ Head(s) \in SpaceChars THEN trimStart(Tail(s)) ELSE s

RECURSIVE trimEnd(_)
trimEnd(s) ==
  IF s # <<>> /\ s[Len(s)] \in SpaceChars
    THEN trimEnd(SubSeq(s, 1, Len(s) - 1))
    ELSE s

trim(s) == trimEnd(trimStart(s))

\* name.toLowerCase().trim()
normalize(name) == trim(toLowerCase(name))

\* length of the longest run of characters of text, from position i on,
\* that are in chars (inSet) or not in chars (~inSet)
RECURSIVE RunLen(_, _, _, _)
RunLen(text, i, chars, inSet) ==
  IF i <= Len(text) /\ ((text[i] \in chars) <=> inSet)
    THEN 1 + RunLen(text, i + 1, chars, inSet)
    ELSE 0

CharAt(text, i) == IF i >= 1 /\ i <= Len(text) THEN text[i] ELSE ""

\* /\[\[(\w+):([^\]]+)\]\]/ anchored at position i: the position after the
\* match and the two captures, or end = 0 when there is no match at i.
\* Both quantifiers are greedy and what follows each of them is a character
\* outside its class, so only the longest run can match.
typedRegexAt(text, i) ==
  LET w == RunLen(text, i + 2, WordChars, TRUE)
      p == i + 2 + w
      c == RunLen(text, p + 1, {"]"}, FALSE)
      q == p + 1 + c
  IN IF /\ CharAt(text, i) = "[" /\ CharAt(text, i + 1) = "["
        /\ w >= 1 /\ CharAt(text, p) = ":"
        /\ c >= 1 /\ CharAt(text, q) = "]" /\ CharAt(text, q + 1) = "]"
       THEN [end |-> q + 2, g1 |-> SubSeq(text, i + 2, p - 1),
             g2 |-> SubSeq(text, p + 1, q - 1)]
       ELSE [end |-> 0, g1 |-> <<>>, g2 |-> <<>>]

\* /\[\[([^\]:]+)\]\]/ anchored at position i
untypedRegexAt(text, i) ==
  LET c == RunLen(text, i + 2, {"]", ":"}, FALSE)
      q == i + 2 + c
  IN IF /\ CharAt(text, i) = "[" /\ CharAt(text, i + 1) = "["
        /\ c >= 1 /\ CharAt(text, q) = "]" /\ CharAt(text, q + 1) = "]"
       THEN [end |-> q + 2, g1 |-> SubSeq(text, i + 2, q - 1)]
       ELSE [end |-> 0, g1 |-> <<>>]

Keys(entities) ==
  {entities[k].type \o <<":">> \o entities[k].name : k \in 1..Len(entities)}

\* the first while loop of extractEntities: regex.exec from lastIndex = i
RECURSIVE typedPass(_, _, _)
typedPass(text, i, entities) ==
  IF i > Len(text) THEN entities
  ELSE LET m == typedRegexAt(text, i) IN
       IF m.end = 0 THEN typedPass(text, i + 1, entities)
       ELSE LET type == trim(toLowerCase(m.g1))
                name == toLowerCase(trim(m.g2))
                key == type \o <<":">> \o name
            IN typedPass(text, m.end,
                 IF key \in Keys(entities) THEN entities
                 ELSE Append(entities, [name |-> name, type |-> type]))

\* the second while loop of extractEntities
RECURSIVE untypedPass(_, _, _)
untypedPass(text, i, entities) ==
  IF i > Len(text) THEN entities
  ELSE LET m == untypedRegexAt(text, i) IN
       IF m.end = 0 THEN untypedPass(text, i + 1, entities)
       ELSE LET name == toLowerCase(trim(m.g1))
                key == Str_topic \o <<":">> \o name
            IN untypedPass(text, m.end,
                 IF key \in Keys(entities) THEN entities
                 ELSE Append(entities, [name |-> name, type |-> Str_topic]))

extractEntities(text) == untypedPass(text, 1, typedPass(text, 1, <<>>))


\* ------------------------------------------------------------------ state
VARIABLES
  conversation,       \* table conversation: id -> row
  message,            \* table message, in insertion order
  trajectory,         \* table trajectory: id -> row
  event,              \* table event: trajectoryId -> its rows, in insertion order
  entity,             \* table entity: id -> row
  entityContribution, \* table entity_contribution: id -> row
  edge,               \* table edge: <<source, target>> (the id source:target) -> row
  cooccurrence,       \* table cooccurrence: <<a, b>> (the id a:b) -> row
  sequenceCounters,   \* TrajectoryEngine.sequenceCounters: Map<trajectoryId, number>
  ret,                \* the last engine call and what it returned
  calls,              \* number of engine calls made (Spec)
  turn,               \* the locals of the processMessageStream call in progress
  worker,             \* SpecConc: the locals of each concurrent caller
  request             \* SpecRequest: the chat / chatStream request in progress

dbVars == <<conversation, message, trajectory, event, entity,
            entityContribution, edge, cooccurrence>>
engineVars == <<trajectory, event, entity, entityContribution, edge,
                cooccurrence, sequenceCounters, ret>>

EventTypes == {"touch", "reason", "decide", "discover"}

Range(f) == {f[x] : x \in DOMAIN f}

\* Map.delete
MapDelete(m, k) == [x \in DOMAIN m \ {k} |-> m[x]]
\* Map.set / insert of a row under a new primary key / update of a row
MapSet(m, k, v) == [x \in DOMAIN m \cup {k} |-> IF x = k THEN v ELSE m[x]]

\* [...new Set(list)]: the distinct elements in first-occurrence order
RECURSIVE Unique(_)
Unique(list) ==
  IF list = <<>> THEN <<>>
  ELSE LET init == Unique(SubSeq(list, 1, Len(list) - 1))
           last == list[Len(list)]
       IN IF last \in Range(init) THEN init ELSE Append(init, last)

\* nanoid(): an id no row of the table has
freshId(table) == Cardinality(DOMAIN table) + 1

\* ------------------------------------------------- TrajectoryEngine: start
startTrajectory(nearAccountId, inputText, conversationId) ==
  LET id == freshId(trajectory) IN
  /\ trajectory' = MapSet(trajectory, id,
       [nearAccountId |-> nearAccountId, conversationId |-> conversationId,
        inputText |-> inputText, summary |-> NULL, completedAt |-> FALSE])
  /\ event' = MapSet(event, id, <<>>)
  /\ sequenceCounters' = MapSet(sequenceCounters, id, 0)
  /\ ret' = [call |-> "startTrajectory", input |-> <<nearAccountId>>,
             output |-> id]
  /\ UNCHANGED <<entity, entityContribution, edge, cooccurrence>>

\* ---------------------------------------------- TrajectoryEngine: logEvent
\* insertOk = FALSE: the store rejects the insert of the event row and the
\* call throws after the counter was advanced.
logEvent(trajectoryId, type, entityId, insertOk) ==
  LET sequenceNum == IF trajectoryId \in DOMAIN sequenceCounters
                       THEN sequenceCounters[trajectoryId] ELSE 0
  IN
  /\ sequenceCounters' = MapSet(sequenceCounters, trajectoryId, sequenceNum + 1)
  /\ IF insertOk
       THEN /\ event' = [event EXCEPT ![trajectoryId] = Append(@,
                  [sequenceNum |-> sequenceNum, eventType |-> type,
                   entityId |-> entityId])]
            /\ entity' = IF type = "touch" /\ entityId # NoId
                           THEN [entity EXCEPT ![entityId].touchCount = @ + 1]
                           ELSE entity
       ELSE UNCHANGED <<event, entity>>
  /\ ret' = [call |-> "logEvent", input |-> <<trajectoryId, type, entityId>>,
             output |-> IF insertOk THEN "id" ELSE "throws"]
  /\ UNCHANGED <<trajectory, entityContribution, edge, cooccurrence>>

\* ------------------------------------ TrajectoryEngine: findOrCreateEntity
\* select ... where normalizedName = ? limit 1: any one matching row
selectEntity(ent, normalizedName) ==
  LET found == {id \in DOMAIN ent : ent[id].normalizedName = normalizedName}
  IN IF found = {} THEN {NoId} ELSE found

\* the update of an existing entity; existing is the row as it was read
\* the update writing the touchCount of the row read plus one
updateEntityStats_FromRead(ent, entityId, existing, entityType) ==
  [ent EXCEPT ![entityId].touchCount = existing.touchCount + 1,
              ![entityId].entityType =
                 IF entityType # NULL /\ existing.entityType = NULL
                   THEN entityType ELSE @]

\* the update branch: touchCount = touchCount + 1 is computed by the store on
\* the row as it is; whether entityType is set is decided on the row read
updateEntityStats(ent, entityId, existing, entityType) ==
  [ent EXCEPT ![entityId].touchCount = @ + 1,
              ![entityId].entityType =
                 IF entityType # NULL /\ existing.entityType = NULL
                   THEN entityType ELSE @]

insertEntity(ent, entityId, name, normalizedName, entityType) ==
  MapSet(ent, entityId,
    [name |-> name, normalizedName |-> normalizedName,
     entityType |-> entityType,
     touchCount |-> 1, trajectoryCount |-> 1, contributorCount |-> 1])

selectContribution(contrib, entityId, nearAccountId) ==
  LET found == {c \in DOMAIN contrib :
                  /\ contrib[c].entityId = entityId
                  /\ contrib[c].nearAccountId = nearAccountId}
  IN IF found = {} THEN {NoId} ELSE found

\* existing is the row as it was read
updateContribution(contrib, id, existing) ==
  [contrib EXCEPT ![id].touchCount = existing.touchCount + 1]

insertContribution(contrib, entityId, nearAccountId, trajectoryId) ==
  MapSet(contrib, freshId(contrib),
    [entityId |-> entityId, nearAccountId |-> nearAccountId,
     firstTrajectoryId |-> trajectoryId,
     touchCount |-> 1, trajectoryCount |-> 1])

incrementContributorCount(ent, entityId) ==
  [ent EXCEPT ![entityId].contributorCount = @ + 1]

\* trackContribution counting a contributor on every call, not only when the
\* contribution row is new
trackContribution_CountsEveryCall(ent, contrib, existing, entityId, nearAccountId, trajectoryId) ==
  [entity |-> incrementContributorCount(ent, entityId),
   entityContribution |->
      IF existing # NoId
        THEN updateContribution(contrib, existing, contrib[existing])
        ELSE insertContribution(contrib, entityId, nearAccountId, trajectoryId)]

\* trackContribution on the tables ent, contrib, having read the row existing
\* (NoId: none): the two tables afterwards
trackContribution(ent, contrib, existing, entityId, nearAccountId, trajectoryId) ==
  IF existing # NoId
    THEN [entity |-> ent,
          entityContribution |-> updateContribution(contrib, existing, contrib[existing])]
    ELSE [entity |-> incrementContributorCount(ent, entityId),
          entityContribution |->
             insertContribution(contrib, entityId, nearAccountId, trajectoryId)]

\* the whole call, no other call interleaved
findOrCreateEntity(nearAccountId, trajectoryId, name, entityType) ==
  LET normalizedName == normalize(name) IN
  \E existing \in selectEntity(entity, normalizedName) :
    LET entityId == IF existing # NoId THEN existing ELSE freshId(entity)
        ent1 == IF existing # NoId
                  THEN updateEntityStats(entity, entityId, entity[existing], entityType)
                  ELSE insertEntity(entity, entityId, name, normalizedName, entityType)
    IN \E c \in selectContribution(entityContribution, entityId, nearAccountId) :
         LET after == trackContribution(ent1, entityContribution, c, entityId,
                                        nearAccountId, trajectoryId)
         IN /\ entity' = after.entity
            /\ entityContribution' = after.entityContribution
            /\ ret' = [call |-> "findOrCreateEntity",
                       input |-> <<nearAccountId, trajectoryId, name, entityType>>,
                       output |-> entityId]
            /\ UNCHANGED <<trajectory, event, edge, cooccurrence, sequenceCounters>>


\* ------------------------------------ TrajectoryEngine: completeTrajectory
\* select ... order by sequenceNum: every order of the rows that is ascending
\* in sequenceNum (rows with equal sequenceNum come in any order)
orderBySequenceNum(rows) ==
  LET n == Len(rows)
      perms == {p \in [1..n -> 1..n] :
                  /\ \A i, j \in 1..n : i # j => p[i] # p[j]
                  /\ \A i, j \in 1..n :
                       i < j => rows[p[i]].sequenceNum <= rows[p[j]].sequenceNum}
  IN IF \A i, j \in 1..n : i < j => rows[i].sequenceNum < rows[j].sequenceNum
       THEN {rows}  \* rows in insertion order are in order, without ties
       ELSE {[i \in 1..n |-> rows[p[i]]] : p \in perms}

\* events.filter(e => e.eventType === type && e.entityId).map(e => e.entityId)
RECURSIVE entityIdsOf(_, _)
entityIdsOf(events, type) ==
  IF events = <<>> THEN <<>>
  ELSE LET e == Head(events)
           rest == entityIdsOf(Tail(events), type)
       IN IF e.eventType = type /\ e.entityId # NoId
            THEN <<e.entityId>> \o rest ELSE rest

\* the touch list as logged, repeated entities kept
touchedEntityIds_KeepsRepeats(events) == entityIdsOf(events, "touch")

touchedEntityIds(events) == Unique(entityIdsOf(events, "touch"))
discoveredEntityIds(events) == Unique(entityIdsOf(events, "discover"))
allEntityIds(events) ==
  Unique(touchedEntityIds(events) \o discoveredEntityIds(events))

\* update entity set trajectoryCount = trajectoryCount + 1 where id in ids
incrementTrajectoryCount(ent, ids) ==
  [id \in DOMAIN ent |->
     IF id \in Range(ids)
       THEN [ent[id] EXCEPT !.trajectoryCount = @ + 1] ELSE ent[id]]

\* the loop over allEntityIds updating the contribution rows of the account
incrementContributionTrajectoryCount(contrib, ids, nearAccountId) ==
  [c \in DOMAIN contrib |->
     IF contrib[c].entityId \in Range(ids) /\ contrib[c].nearAccountId = nearAccountId
       THEN [contrib[c] EXCEPT !.trajectoryCount = @ + 1] ELSE contrib[c]]

\* the pair as the loops met it, not sorted
sortPair_Unsorted(idI, idJ) == <<idI, idJ>>

\* [idI, idJ].sort(): the two ids in lexicographic order
sortPair(idI, idJ) == IF idI <= idJ THEN <<idI, idJ>> ELSE <<idJ, idI>>

\* the upsert with an update that leaves windowCount as it is
upsertCooccurrence_KeepsWindowCount(cooc, idI, idJ) ==
  LET sorted == sortPair(idI, idJ)
      coocId == <<sorted[1], sorted[2]>>
  IN IF coocId \in DOMAIN cooc
       THEN [cooc EXCEPT ![coocId].count = @ + 1,
                         ![coocId].trajectoryCount = @ + 1]
       ELSE MapSet(cooc, coocId,
              [entityA |-> sorted[1], entityB |-> sorted[2],
               count |-> 1, windowCount |-> 1, trajectoryCount |-> 1,
               contributorCount |-> 1])

\* one iteration of the inner loop of updateCooccurrences
upsertCooccurrence(cooc, idI, idJ) ==
  LET sorted == sortPair(idI, idJ)
      coocId == <<sorted[1], sorted[2]>>
  IN IF coocId \in DOMAIN cooc
       THEN [cooc EXCEPT ![coocId].count = @ + 1,
                         ![coocId].windowCount = @ + 1,
                         ![coocId].trajectoryCount = @ + 1]
       ELSE MapSet(cooc, coocId,
              [entityA |-> sorted[1], entityB |-> sorted[2],
               count |-> 1, windowCount |-> 1, trajectoryCount |-> 1,
               contributorCount |-> 1])

\* the two nested loops of updateCooccurrences, from indices i, j on
RECURSIVE cooccurrenceLoop(_, _, _, _)
cooccurrenceLoop(cooc, entityIds, i, j) ==
  IF i > Len(entityIds) THEN cooc
  ELSE IF j > Len(entityIds) THEN cooccurrenceLoop(cooc, entityIds, i + 1, i + 2)
  ELSE cooccurrenceLoop(upsertCooccurrence(cooc, entityIds[i], entityIds[j]),
                        entityIds, i, j + 1)

updateCooccurrences(cooc, entityIds) ==
  IF Len(entityIds) < 2 THEN cooc ELSE cooccurrenceLoop(cooc, entityIds, 1, 2)

\* a new edge row that counts its first trajectory as a positive outcome
newEdgeRow_CountsPositive(sourceId, targetId, relationshipType) ==
  [sourceEntityId |-> sourceId, targetEntityId |-> targetId,
   relationshipType |-> relationshipType,
   weight |-> 1, trajectoryCount |-> 1, contributorCount |-> 1,
   positiveOutcomes |-> 1, negativeOutcomes |-> 0, mixedOutcomes |-> 0]

\* the row both strengthenEdges and trackOutcomes insert for a new edge
newEdgeRow(sourceId, targetId, relationshipType) ==
  [sourceEntityId |-> sourceId, targetEntityId |-> targetId,
   relationshipType |-> relationshipType,
   weight |-> 1, trajectoryCount |-> 1, contributorCount |-> 1,
   positiveOutcomes |-> 0, negativeOutcomes |-> 0, mixedOutcomes |-> 0]

\* upsertEdge as an insert that leaves an existing row as it is
upsertEdge_KeepsExisting(edg, sourceId, targetId, relationshipType) ==
  LET edgeId == <<sourceId, targetId>> IN
  IF edgeId \in DOMAIN edg
    THEN edg
    ELSE MapSet(edg, edgeId, newEdgeRow(sourceId, targetId, relationshipType))

\* the upsert both strengthenEdges and trackOutcomes make: an existing row
\* gains weight and trajectoryCount, a new row gets relationshipType
upsertEdge(edg, sourceId, targetId, relationshipType) ==
  LET edgeId == <<sourceId, targetId>> IN
  IF edgeId \in DOMAIN edg
    THEN [edg EXCEPT ![edgeId].weight = @ + 1,
                     ![edgeId].trajectoryCount = @ + 1]
    ELSE MapSet(edg, edgeId, newEdgeRow(sourceId, targetId, relationshipType))

\* the EdgeInfo strengthenEdges pushes for the edge it has just upserted
edgeInfo(edg, sourceId, targetId) ==
  LET edgeId == <<sourceId, targetId>> IN
  [id |-> edgeId, sourceEntityId |-> edg[edgeId].sourceEntityId,
   targetEntityId |-> edg[edgeId].targetEntityId,
   relationshipType |-> edg[edgeId].relationshipType,
   weight |-> edg[edgeId].weight]

\* the loop of strengthenEdges from index i on: the table and the list edges
RECURSIVE strengthenLoop(_, _, _, _)
strengthenLoop(edg, edges, entityIds, i) ==
  IF i > Len(entityIds) - 1 THEN [edge |-> edg, edges |-> edges]
  ELSE LET sourceId == entityIds[i]
           targetId == entityIds[i + 1]
       IN IF sourceId = targetId
            THEN strengthenLoop(edg, edges, entityIds, i + 1)
            ELSE LET edg1 == upsertEdge(edg, sourceId, targetId, NULL)
                 IN strengthenLoop(edg1,
                      Append(edges, edgeInfo(edg1, sourceId, targetId)),
                      entityIds, i + 1)

strengthenEdges(edg, entityIds) ==
  IF Len(entityIds) < 2 THEN [edge |-> edg, edges |-> <<>>]
  ELSE strengthenLoop(edg, <<>>, entityIds, 1)

\* the strategy x outcome loops of trackOutcomes over the pairs not yet done
RECURSIVE outcomeLoop(_, _)
outcomeLoop(edg, pairs) ==
  IF pairs = {} THEN edg
  ELSE LET pr == CHOOSE x \in pairs : TRUE
       IN outcomeLoop(upsertEdge(edg, pr[1], pr[2], Str_leads_to), pairs \ {pr})

\* trackOutcomes pairing every strategy with every entity of the trajectory
trackOutcomes_AnyTarget(edg, ent, entityIds) ==
  LET entities == {id \in DOMAIN ent : id \in Range(entityIds)}
      outcomes == {id \in entities : ent[id].entityType = Str_outcome}
      strategies == {id \in entities : ent[id].entityType = Str_strategy}
  IN IF outcomes = {} \/ strategies = {} THEN edg
     ELSE outcomeLoop(edg, strategies \X entities)

trackOutcomes(edg, ent, entityIds) ==
  LET entities == {id \in DOMAIN ent : id \in Range(entityIds)}
      outcomes == {id \in entities : ent[id].entityType = Str_outcome}
      strategies == {id \in entities : ent[id].entityType = Str_strategy}
  IN IF outcomes = {} \/ strategies = {} THEN edg
     ELSE outcomeLoop(edg, strategies \X outcomes)

\* the EntityInfo list built from entityMap for the ids given
RECURSIVE entityInfos(_, _)
entityInfos(ent, ids) ==
  IF ids = <<>> THEN <<>>
  ELSE LET id == Head(ids)
           rest == entityInfos(ent, Tail(ids))
       IN IF id \in DOMAIN ent
            THEN <<[id |-> id, name |-> ent[id].name,
                    entityType |-> ent[id].entityType,
                    touchCount |-> ent[id].touchCount]>> \o rest
            ELSE rest

\* the whole call, no other call interleaved
completeTrajectory(trajectoryId, nearAccountId, summary) ==
  \E events \in orderBySequenceNum(event[trajectoryId]) :
    LET touched == touchedEntityIds(events)
        discovered == discoveredEntityIds(events)
        all == allEntityIds(events)
        ent1 == IF Len(all) > 0 THEN incrementTrajectoryCount(entity, all)
                ELSE entity
        strengthened == strengthenEdges(edge, touched)
    IN /\ trajectory' = [trajectory EXCEPT ![trajectoryId].completedAt = TRUE,
                                           ![trajectoryId].summary = summary]
       /\ entity' = ent1
       /\ entityContribution' =
            incrementContributionTrajectoryCount(entityContribution, all, nearAccountId)
       /\ cooccurrence' = updateCooccurrences(cooccurrence, all)
       /\ edge' = trackOutcomes(strengthened.edge, ent1, all)
       /\ sequenceCounters' = MapDelete(sequenceCounters, trajectoryId)
       /\ ret' = [call |-> "completeTrajectory",
                  input |-> <<trajectoryId, nearAccountId>>,
                  output |-> [entitiesDiscovered |-> entityInfos(ent1, discovered),
                              entitiesTouched |-> entityInfos(ent1, touched),
                              edgesTraversed |-> strengthened.edges]]
       /\ UNCHANGED event

\* ------------------------------------------------- sequential engine calls
\* The arguments a caller passes: the account of findOrCreateEntity and of
\* completeTrajectory is the account the trajectory was started for
\* (agent.ts:531-535, 567-572, 799-803).
Mentions ==
  {[name |-> <<" ", "S">>, type |-> Str_strategy],
   [name |-> <<"s">>, type |-> NULL],
   [name |-> <<"o">>, type |-> Str_outcome]}

EventInputs ==
  {[type |-> ty, entityId |-> id] :
     ty \in {"touch", "discover"}, id \in DOMAIN entity}
  \cup {[type |-> "reason", entityId |-> NoId]}

\* no processMessageStream call in progress
IdleTurn ==
  [pc |-> "idle", nearAccountId |-> "", message |-> <<>>,
   conversationId |-> NoId, convId |-> NoId, trajectoryId |-> NoId,
   mentionedEntities |-> <<>>, entitiesTouched |-> <<>>, entityId |-> NoId,
   fullResponse |-> <<>>, responseEntities |-> <<>>,
   entitiesDiscovered |-> <<>>, messages |-> <<>>]

\* the concurrent callers of SpecConc, one trajectory each
Workers == {1, 2}

\* a caller that has not started its trajectory
IdleWorker ==
  [pc |-> "idle", nearAccountId |-> "", trajectoryId |-> NoId, done |-> 0,
   name |-> <<>>, entityType |-> NULL, normalizedName |-> <<>>,
   existing |-> NoId, existingRow |-> <<>>, entityId |-> NoId,
   returned |-> NoId]

\* no request received yet; agentService is the service the plugin built at
\* initialize (index.ts:47-61), FALSE when no NEAR_AI_API_KEY was configured
IdleRequest ==
  [agentService |-> TRUE, handler |-> "none", pc |-> "idle",
   aborted |-> FALSE, clock |-> ClockStart, eventCounter |-> 0,
   yielded |-> <<>>, delivered |-> <<>>, result |-> "none",
   nearAccountId |-> "", message |-> <<>>, convId |-> NoId,
   trajectoryId |-> NoId, mentionedEntities |-> <<>>,
   entitiesTouched |-> <<>>, entityId |-> NoId, simulation |-> FALSE,
   llm |-> <<>>, llmFailed |-> FALSE, fullResponse |-> <<>>,
   responseEntities |-> <<>>, entitiesDiscovered |-> <<>>, events |-> <<>>,
   edgesTraversed |-> <<>>]

Init ==
  /\ conversation = <<>>
  /\ message = <<>>
  /\ trajectory = <<>>
  /\ event = <<>>
  /\ entity = <<>>
  /\ entityContribution = <<>>
  /\ edge = <<>>
  /\ cooccurrence = <<>>
  /\ sequenceCounters = <<>>
  /\ ret = [call |-> "none", input |-> <<>>, output |-> <<>>]
  /\ calls = 0
  /\ turn = IdleTurn
  /\ worker = [w \in Workers |-> IdleWorker]
  /\ request = IdleRequest

StartTrajectory ==
  /\ calls < MaxCalls
  /\ Cardinality(DOMAIN trajectory) < MaxTrajectories
  /\ \E a \in Accounts : startTrajectory(a, <<>>, NoId)
  /\ calls' = calls + 1
  /\ UNCHANGED <<conversation, message, turn, worker, request>>

FindOrCreateEntity ==
  /\ calls < MaxCalls
  /\ \E t \in DOMAIN trajectory, m \in Mentions :
       findOrCreateEntity(trajectory[t].nearAccountId, t, m.name, m.type)
  /\ calls' = calls + 1
  /\ UNCHANGED <<conversation, message, turn, worker, request>>

LogEvent ==
  /\ calls < MaxCalls
  /\ \E t \in DOMAIN trajectory, e \in EventInputs :
       /\ Len(event[t]) < MaxEvents
       /\ logEvent(t, e.type, e.entityId, TRUE)
  /\ calls' = calls + 1
  /\ UNCHANGED <<conversation, message, turn, worker, request>>

\* a logEvent whose insert of the event row the store rejects
LogEventFails ==
  /\ calls < MaxCalls
  /\ \E t \in DOMAIN trajectory : logEvent(t, "reason", NoId, FALSE)
  /\ calls' = calls + 1
  /\ UNCHANGED <<conversation, message, turn, worker, request>>

CompleteTrajectory ==
  /\ calls < MaxCalls
  /\ \E t \in DOMAIN trajectory :
       completeTrajectory(t, trajectory[t].nearAccountId, NULL)
  /\ calls' = calls + 1
  /\ UNCHANGED <<conversation, message, turn, worker, request>>

vars == <<conversation, message, trajectory, event, entity,
          entityContribution, edge, cooccurrence, sequenceCounters, ret, calls,
          turn, worker, request>>

Next ==
  \/ StartTrajectory
  \/ FindOrCreateEntity
  \/ LogEvent
  \/ LogEventFails
  \/ CompleteTrajectory

Spec == Init /\ [][Next]_vars


\* ------------------------------------- AgentService.processMessageStream
\* One chat turn, one step per awaited engine call; turns follow one another.
Tag(type, name) == <<"[", "[">> \o type \o <<":">> \o name \o <<"]", "]">>

\* "Teaching [[topic:T]] with [[strategy:s]]", shortened
Msg_TS == Tag(Str_topic, <<"T">>) \o <<" ">> \o Tag(Str_strategy, <<"s">>)
Msg_SO == Tag(Str_strategy, <<"s">>) \o Tag(Str_outcome, <<"o">>)
Msg_Plain == <<"h", "i">>
UserMessages == {Msg_TS, Msg_SO, Msg_Plain}

\* what the language model may answer
Rsp_Plain == <<"o", "k">>
Rsp_O == Tag(Str_outcome, <<"o">>)
Rsp_S == <<"[", "[", "s", "]", "]">>
Responses == {Rsp_Plain, Rsp_O, Rsp_S}

\* String.prototype.slice(0, n)
slice(text, n) == SubSeq(text, 1, IF Len(text) < n THEN Len(text) ELSE n)

TitleLen == 50
Str_ellipsis == <<".", ".", ".">>
Str_ResponseTo == <<"R","e","s","p","o","n","s","e"," ","t","o",":"," ">>

\* steps 1 and 2: get or create the conversation, start the trajectory
TurnStart ==
  /\ turn.pc = "idle"
  /\ Cardinality(DOMAIN trajectory) < MaxTurns
  /\ \E nearAccountId \in Accounts, msg \in UserMessages,
        conversationId \in {NoId} \cup DOMAIN conversation :
       LET convId == IF conversationId # NoId THEN conversationId
                     ELSE freshId(conversation)
       IN /\ conversation' =
               IF conversationId # NoId THEN conversation
               ELSE MapSet(conversation, convId,
                      [nearAccountId |-> nearAccountId, title |-> NULL])
          /\ startTrajectory(nearAccountId, msg, convId)
          /\ turn' = [IdleTurn EXCEPT !.pc = "saveUserMessage",
                        !.nearAccountId = nearAccountId, !.message = msg,
                        !.conversationId = conversationId, !.convId = convId,
                        !.trajectoryId = ret'.output]
  /\ UNCHANGED <<message, calls, worker, request>>

\* steps 3 to 5: save the user message, extract its tags
TurnSaveUserMessage ==
  /\ turn.pc = "saveUserMessage"
  /\ message' = Append(message,
       [conversationId |-> turn.convId, role |-> "user",
        content |-> turn.message, trajectoryId |-> NoId])
  /\ turn' = [turn EXCEPT !.mentionedEntities = extractEntities(turn.message),
                          !.pc = "userEntity"]
  /\ UNCHANGED <<conversation, engineVars, calls, worker, request>>

\* getConversationHistory: the last limit messages of the conversation by
\* createdAt, oldest first; the table is in the order of createdAt
getConversationHistory(msgs, conversationId, limit) ==
  LET rows == SelectSeq(msgs, LAMBDA m : m.conversationId = conversationId)
      first == IF Len(rows) > limit THEN Len(rows) - limit + 1 ELSE 1
  IN [i \in 1..(Len(rows) - first + 1) |->
        [role |-> rows[first + i - 1].role,
         content |-> rows[first + i - 1].content]]

\* step 8, the messages handed to the language model; the system prompt,
\* with the simulation context when there is one, stands as one text
llmMessages(history, msg) ==
  <<[role |-> "system", content |-> <<"P", "C", "K">>]>>
    \o history \o <<[role |-> "user", content |-> msg]>>

\* step 5, loop head and findOrCreateEntity of the next user tag; after the
\* last tag: steps 6 to 9 (simulate and history only read), logEvent(reason)
TurnUserEntity ==
  /\ turn.pc = "userEntity"
  /\ IF Len(turn.entitiesTouched) < Len(turn.mentionedEntities)
       THEN LET ent == turn.mentionedEntities[Len(turn.entitiesTouched) + 1] IN
            /\ findOrCreateEntity(turn.nearAccountId, turn.trajectoryId,
                                  ent.name, ent.type)
            /\ turn' = [turn EXCEPT !.entityId = ret'.output,
                                    !.entitiesTouched = Append(@, ret'.output),
                                    !.pc = "userTouch"]
       ELSE /\ logEvent(turn.trajectoryId, "reason", NoId, TRUE)
            /\ turn' = [turn EXCEPT
                 !.messages = llmMessages(
                    getConversationHistory(message, turn.convId, 10),
                    turn.message),
                 !.pc = "llm"]
  /\ UNCHANGED <<conversation, message, calls, worker, request>>

\* step 5, logEvent(touch) of the entity just found
TurnUserTouch ==
  /\ turn.pc = "userTouch"
  /\ logEvent(turn.trajectoryId, "touch", turn.entityId, TRUE)
  /\ turn' = [turn EXCEPT !.pc = "userEntity"]
  /\ UNCHANGED <<conversation, message, calls, worker, request>>

\* step 10: the stream of the language model has been read to its end
TurnLLM ==
  /\ turn.pc = "llm"
  /\ \E fullResponse \in Responses :
       turn' = [turn EXCEPT !.fullResponse = fullResponse,
                  !.responseEntities = extractEntities(fullResponse),
                  !.pc = "responseEntity"]
  /\ UNCHANGED <<conversation, message, engineVars, calls, worker, request>>

\* step 10: the call or the stream of the language model throws; the catch
\* block yields the error event and the generator returns
TurnLLMFails ==
  /\ turn.pc = "llm"
  /\ turn' = IdleTurn
  /\ UNCHANGED <<conversation, message, engineVars, calls, worker, request>>

\* the loop over responseEntities: findOrCreateEntity of the next response
\* tag; after the last tag: step 11, logEvent(decide)
TurnResponseEntity ==
  /\ turn.pc = "responseEntity"
  /\ IF turn.responseEntities # <<>>
       THEN LET ent == Head(turn.responseEntities) IN
            /\ findOrCreateEntity(turn.nearAccountId, turn.trajectoryId,
                                  ent.name, ent.type)
            /\ turn' = [turn EXCEPT !.entityId = ret'.output,
                                    !.responseEntities = Tail(@),
                                    !.pc = "responseEvent"]
       ELSE /\ logEvent(turn.trajectoryId, "decide", NoId, TRUE)
            /\ turn' = [turn EXCEPT !.pc = "complete"]
  /\ UNCHANGED <<conversation, message, calls, worker, request>>

\* discover when the entity is not among entitiesTouched, touch otherwise
TurnResponseEvent ==
  /\ turn.pc = "responseEvent"
  /\ IF turn.entityId \notin Range(turn.entitiesTouched)
       THEN /\ logEvent(turn.trajectoryId, "discover", turn.entityId, TRUE)
            /\ turn' = [turn EXCEPT !.entitiesDiscovered = Append(@, turn.entityId),
                                    !.pc = "responseEntity"]
       ELSE /\ logEvent(turn.trajectoryId, "touch", turn.entityId, TRUE)
            /\ turn' = [turn EXCEPT !.pc = "responseEntity"]
  /\ UNCHANGED <<conversation, message, calls, worker, request>>

\* step 12
TurnComplete ==
  /\ turn.pc = "complete"
  /\ completeTrajectory(turn.trajectoryId, turn.nearAccountId,
       Str_ResponseTo \o slice(turn.message, TitleLen) \o Str_ellipsis)
  /\ turn' = [turn EXCEPT !.pc = "persist"]
  /\ UNCHANGED <<conversation, message, calls, worker, request>>

\* steps 13 and 14: save the assistant message, set the title of a new
\* conversation; the complete event is yielded and the generator returns
TurnPersist ==
  /\ turn.pc = "persist"
  /\ message' = Append(message,
       [conversationId |-> turn.convId, role |-> "assistant",
        content |-> turn.fullResponse, trajectoryId |-> turn.trajectoryId])
  /\ conversation' =
       IF turn.conversationId = NoId
         THEN [conversation EXCEPT ![turn.convId].title =
                 slice(turn.message, TitleLen)
                   \o (IF Len(turn.message) > TitleLen THEN Str_ellipsis ELSE <<>>)]
         ELSE conversation
  /\ turn' = IdleTurn
  /\ UNCHANGED <<engineVars, calls, worker, request>>

NextChat ==
  \/ TurnStart
  \/ TurnSaveUserMessage
  \/ TurnUserEntity
  \/ TurnUserTouch
  \/ TurnLLM
  \/ TurnLLMFails
  \/ TurnResponseEntity
  \/ TurnResponseEvent
  \/ TurnComplete
  \/ TurnPersist

SpecChat == Init /\ [][NextChat]_vars

\* --------------------- concurrent callers of findOrCreateEntity (SpecConc)
\* Each caller runs on its own trajectory; a call suspends at every await of
\* a store statement (spec section 5), and the statements of different
\* callers interleave.  No statement runs in a transaction
\* (trajectory.ts:181-223, 238-277).
WStartTrajectory(w) ==
  /\ worker[w].pc = "idle"
  /\ \E a \in Accounts :
       /\ startTrajectory(a, <<>>, NoId)
       /\ worker' = [worker EXCEPT ![w].pc = "ready", ![w].nearAccountId = a,
                                   ![w].trajectoryId = ret'.output]
  /\ UNCHANGED <<conversation, message, calls, turn, request>>

\* the call begins: the select by normalizedName (trajectory.ts:181-185)
WSelectEntity(w) ==
  /\ worker[w].pc = "ready"
  /\ worker[w].done < MaxWorkerCalls
  /\ \E m \in Mentions :
     \E existing \in selectEntity(entity, normalize(m.name)) :
       worker' = [worker EXCEPT ![w].pc = "writeEntity",
                    ![w].name = m.name, ![w].entityType = m.type,
                    ![w].normalizedName = normalize(m.name),
                    ![w].existing = existing,
                    ![w].existingRow =
                       IF existing # NoId THEN entity[existing] ELSE <<>>]
  /\ UNCHANGED <<dbVars, sequenceCounters, ret, calls, turn, request>>

\* the update of the row read, or the insert of a new row
\* (trajectory.ts:189-220)
WWriteEntity(w) ==
  /\ worker[w].pc = "writeEntity"
  /\ LET existing == worker[w].existing
         entityId == IF existing # NoId THEN existing ELSE freshId(entity)
     IN /\ entity' =
             IF existing # NoId
               THEN updateEntityStats(entity, entityId, worker[w].existingRow,
                                      worker[w].entityType)
               ELSE insertEntity(entity, entityId, worker[w].name,
                                 worker[w].normalizedName, worker[w].entityType)
        /\ worker' = [worker EXCEPT ![w].pc = "selectContribution",
                                    ![w].entityId = entityId]
  /\ UNCHANGED <<conversation, message, trajectory, event, entityContribution,
                 edge, cooccurrence, sequenceCounters, ret, calls, turn, request>>

\* trackContribution: the select of the contribution row (trajectory.ts:238-247)
WSelectContribution(w) ==
  /\ worker[w].pc = "selectContribution"
  /\ \E existing \in selectContribution(entityContribution, worker[w].entityId,
                                        worker[w].nearAccountId) :
       worker' = [worker EXCEPT ![w].pc = "writeContribution",
                    ![w].existing = existing,
                    ![w].existingRow =
                       IF existing # NoId THEN entityContribution[existing]
                       ELSE <<>>]
  /\ UNCHANGED <<dbVars, sequenceCounters, ret, calls, turn, request>>

\* findOrCreateEntity returns entityId to its caller
Returns(w) ==
  /\ ret' = [call |-> "findOrCreateEntity",
             input |-> <<worker[w].nearAccountId, worker[w].trajectoryId,
                         worker[w].name, worker[w].entityType>>,
             output |-> worker[w].entityId]
  /\ worker' = [worker EXCEPT ![w].pc = "ready", ![w].done = @ + 1,
                              ![w].returned = worker[w].entityId]

\* trackContribution: the update of the row read, after which the call
\* returns, or the insert of a new row (trajectory.ts:249-269)
WWriteContribution(w) ==
  /\ worker[w].pc = "writeContribution"
  /\ IF worker[w].existing # NoId
       THEN /\ entityContribution' =
                 updateContribution(entityContribution, worker[w].existing,
                                    worker[w].existingRow)
            /\ Returns(w)
       ELSE /\ entityContribution' =
                 insertContribution(entityContribution, worker[w].entityId,
                    worker[w].nearAccountId, worker[w].trajectoryId)
            /\ worker' = [worker EXCEPT ![w].pc = "incrementContributorCount"]
            /\ UNCHANGED ret
  /\ UNCHANGED <<conversation, message, trajectory, event, entity, edge,
                 cooccurrence, sequenceCounters, calls, turn, request>>

\* trackContribution: contributorCount + 1, and the call returns
\* (trajectory.ts:271-277, 225)
WIncrementContributorCount(w) ==
  /\ worker[w].pc = "incrementContributorCount"
  /\ entity' = incrementContributorCount(entity, worker[w].entityId)
  /\ Returns(w)
  /\ UNCHANGED <<conversation, message, trajectory, event, entityContribution,
                 edge, cooccurrence, sequenceCounters, calls, turn, request>>

NextConc ==
  \E w \in Workers :
    \/ WStartTrajectory(w)
    \/ WSelectEntity(w)
    \/ WWriteEntity(w)
    \/ WSelectContribution(w)
    \/ WWriteContribution(w)
    \/ WIncrementContributorCount(w)

SpecConc == Init /\ [][NextConc]_vars

\* ------------------------------- one chat / chatStream request (SpecRequest)
\* The handlers of index.ts:123-183 and the orchestrator they call:
\* processMessageStream (agent.ts:514-853) for chatStream, processMessage
\* (agent.ts:281-509) for chat.  The two orchestrators run the same
\* statements up to the call of the language model and after it; only the
\* streaming one yields events.  One step per awaited call; a step that ends
\* at a yield includes the handler's look at the cancellation signal
\* (index.ts:170-182), which follows the yield without an await.

\* Number.prototype.toString(): the decimal digits of n
RECURSIVE decimal(_)
decimal(n) ==
  LET digit == <<"0", "1", "2", "3", "4", "5", "6", "7", "8", "9">>
  IN IF n < 10 THEN <<digit[n + 1]>>
     ELSE decimal(n \div 10) \o <<digit[(n % 10) + 1]>>

Str_evt == <<"e", "v", "t", "_">>
Str_mock_error == <<"m", "o", "c", "k", "-", "e", "r", "r", "o", "r", "-">>

\* `evt_${Date.now()}_${eventCounter++}` (the caller advances eventCounter)
generateEventId(now, eventCounter) ==
  Str_evt \o decimal(now) \o <<"_">> \o decimal(eventCounter)

\* the UTF-16 code unit of a character of an event id
CharCode(c) ==
  CASE c = "-" -> 45
    [] c = "0" -> 48 [] c = "1" -> 49 [] c = "2" -> 50 [] c = "3" -> 51
    [] c = "4" -> 52 [] c = "5" -> 53 [] c = "6" -> 54 [] c = "7" -> 55
    [] c = "8" -> 56 [] c = "9" -> 57
    [] c = "_" -> 95
    [] c = "c" -> 99 [] c = "e" -> 101 [] c = "k" -> 107 [] c = "m" -> 109
    [] c = "o" -> 111 [] c = "r" -> 114 [] c = "t" -> 116 [] c = "v" -> 118

\* a < b on strings: the order of the first code unit that differs, a proper
\* prefix being smaller
RECURSIVE StrLess(_, _)
StrLess(a, b) ==
  IF b = <<>> THEN FALSE
  ELSE IF a = <<>> THEN TRUE
  ELSE IF Head(a) # Head(b) THEN CharCode(Head(a)) < CharCode(Head(b))
  ELSE StrLess(Tail(a), Tail(b))

\* the readings Date.now() may give after the reading r.clock
Now(r) == {c \in r.clock .. r.clock + 1 : c <= ClockStart + MaxClockTicks}

\* the request with pc = "idle" has not been received; these have ended
EndedPcs == {"done", "cancelled", "crashed"}
Active(r) == r.pc \notin {"idle"} \cup EndedPcs

\* yield of processMessageStream, and what the chatStream handler does with
\* the event: break when the signal is aborted, which ends the generator at
\* the yield, else yield the event to the caller.  processMessage yields nothing.
yield(r, now, type, eventType) ==
  LET ev == [type |-> type, eventType |-> eventType,
             id |-> generateEventId(now, r.eventCounter)]
  IN IF r.handler # "chatStream" THEN r
     ELSE [r EXCEPT !.clock = now, !.eventCounter = @ + 1,
                    !.yielded = Append(@, ev),
                    !.delivered = IF r.aborted THEN @ ELSE Append(@, ev),
                    !.pc = IF r.aborted THEN "cancelled" ELSE @]

StreamMessages == {Msg_TS, Msg_Plain}

\* chatStream without an agent service: one error event of the handler
ChatStreamNoAgent ==
  /\ request.pc = "idle"
  /\ ~request.agentService
  /\ \E now \in Now(request) :
       LET ev == [type |-> "error", eventType |-> NULL,
                  id |-> Str_mock_error \o decimal(now)]
       IN request' = [request EXCEPT !.handler = "chatStream", !.pc = "done",
                        !.clock = now, !.yielded = <<ev>>,
                        !.delivered = <<ev>>]
  /\ UNCHANGED <<dbVars, sequenceCounters, ret, calls, turn, worker>>

\* chat without an agent service: the mock response
ChatNoAgent ==
  /\ request.pc = "idle"
  /\ ~request.agentService
  /\ request' = [request EXCEPT !.handler = "chat", !.pc = "done",
                                !.result = "mock"]
  /\ UNCHANGED <<dbVars, sequenceCounters, ret, calls, turn, worker>>

\* mutant: the handler calls the orchestrator whether or not there is a service
ReqStart_WithoutService ==
  /\ request.pc = "idle"
  /\ \E handler \in {"chat", "chatStream"}, nearAccountId \in Accounts,
        msg \in StreamMessages, now \in Now(request) :
       LET convId == freshId(conversation) IN
       /\ conversation' = MapSet(conversation, convId,
            [nearAccountId |-> nearAccountId, title |-> NULL])
       /\ startTrajectory(nearAccountId, msg, convId)
       /\ request' = yield([request EXCEPT !.handler = handler,
                              !.pc = "saveUserMessage",
                              !.nearAccountId = nearAccountId,
                              !.message = msg, !.convId = convId,
                              !.trajectoryId = ret'.output],
                           now, "trajectory_event", "trajectory_start")
  /\ UNCHANGED <<message, calls, turn, worker>>

\* steps 1 and 2: create the conversation, start the trajectory; the
\* trajectory_start event
ReqStart ==
  /\ request.pc = "idle"
  /\ request.agentService
  /\ \E handler \in {"chat", "chatStream"}, nearAccountId \in Accounts,
        msg \in StreamMessages, now \in Now(request) :
       LET convId == freshId(conversation) IN
       /\ conversation' = MapSet(conversation, convId,
            [nearAccountId |-> nearAccountId, title |-> NULL])
       /\ startTrajectory(nearAccountId, msg, convId)
       /\ request' = yield([request EXCEPT !.handler = handler,
                              !.pc = "saveUserMessage",
                              !.nearAccountId = nearAccountId,
                              !.message = msg, !.convId = convId,
                              !.trajectoryId = ret'.output],
                           now, "trajectory_event", "trajectory_start")
  /\ UNCHANGED <<message, calls, turn, worker>>

\* steps 3 to 5: save the user message, extract its tags
ReqSaveUserMessage ==
  /\ request.pc = "saveUserMessage"
  /\ message' = Append(message,
       [conversationId |-> request.convId, role |-> "user",
        content |-> request.message, trajectoryId |-> NoId])
  /\ LET mentionedEntities == extractEntities(request.message) IN
     request' = [request EXCEPT !.mentionedEntities = mentionedEntities,
                   !.pc = IF mentionedEntities # <<>> THEN "userEntity"
                          ELSE "reason"]
  /\ UNCHANGED <<conversation, engineVars, calls, turn, worker>>

\* step 5: findOrCreateEntity of the next user tag
ReqUserEntity ==
  /\ request.pc = "userEntity"
  /\ LET ent == request.mentionedEntities[Len(request.entitiesTouched) + 1] IN
     /\ findOrCreateEntity(request.nearAccountId, request.trajectoryId,
                           ent.name, ent.type)
     /\ request' = [request EXCEPT !.entityId = ret'.output,
                      !.entitiesTouched = Append(@, ret'.output),
                      !.pc = "userTouch"]
  /\ UNCHANGED <<conversation, message, calls, turn, worker>>

\* mutant: the simulation is skipped
ReqUserTouch_SkipsSimulate ==
  /\ request.pc = "userTouch"
  /\ logEvent(request.trajectoryId, "touch", request.entityId, TRUE)
  /\ \E now \in Now(request) :
       request' = yield([request EXCEPT !.pc =
                            IF Len(request.entitiesTouched)
                                 < Len(request.mentionedEntities)
                              THEN "userEntity" ELSE "reason"],
                        now, "trajectory_event", "touch")
  /\ UNCHANGED <<conversation, message, calls, turn, worker>>

\* step 5: logEvent(touch) of the entity just found, and the touch event
ReqUserTouch ==
  /\ request.pc = "userTouch"
  /\ logEvent(request.trajectoryId, "touch", request.entityId, TRUE)
  /\ \E now \in Now(request) :
       request' = yield([request EXCEPT !.pc =
                            IF Len(request.entitiesTouched)
                                 < Len(request.mentionedEntities)
                              THEN "userEntity" ELSE "simulate"],
                        now, "trajectory_event", "touch")
  /\ UNCHANGED <<conversation, message, calls, turn, worker>>

\* step 6, reached with at least one user tag: the simulation, which only
\* reads the store, and the simulate event
ReqSimulate ==
  /\ request.pc = "simulate"
  /\ \E now \in Now(request) :
       request' = yield([request EXCEPT !.simulation = TRUE, !.pc = "reason"],
                        now, "trajectory_event", "simulate")
  /\ UNCHANGED <<dbVars, sequenceCounters, ret, calls, turn, worker>>

\* steps 7 to 9: the history is read, logEvent(reason), the reason event
ReqReason ==
  /\ request.pc = "reason"
  /\ logEvent(request.trajectoryId, "reason", NoId, TRUE)
  /\ \E now \in Now(request) :
       request' = yield([request EXCEPT !.pc = "llm"],
                        now, "trajectory_event", "reason")
  /\ UNCHANGED <<conversation, message, calls, turn, worker>>

\* completion.choices[0]?.message?.content ?? "I apologize, but I was unable
\* to generate a response." (agent.ts:403-405), shortened; it has no tag
Str_unable == <<"I", " ", "w", "a", "s", " ", "u", "n", "a", "b", "l", "e">>

\* "I apologize, but I encountered an error connecting to the AI service.
\* Please try again." (agent.ts:408-409), shortened; it has no tag
Str_apology == <<"I", " ", "a", "p", "o", "l", "o", "g", "i", "z", "e">>

\* what the language model may answer; the stream may carry no content
StreamResponses == {<<>>, Rsp_Plain, Rsp_S}

\* step 10 of processMessageStream: chat.completions.create returns a stream
StreamLLMCreate ==
  /\ request.pc = "llm"
  /\ request.handler = "chatStream"
  /\ \E text \in StreamResponses :
       request' = [request EXCEPT !.llm = text, !.pc = "llmStream"]
  /\ UNCHANGED <<dbVars, sequenceCounters, ret, calls, turn, worker>>

\* the next chunk of the stream: its delta is empty, one character or all
\* that is left; a chunk event only for a non-empty delta
StreamChunk ==
  /\ request.pc = "llmStream"
  /\ \E n \in {0, 1, Len(request.llm)} \cap (0 .. Len(request.llm)),
        now \in Now(request) :
       LET content == SubSeq(request.llm, 1, n)
           rest == SubSeq(request.llm, n + 1, Len(request.llm))
       IN request' =
            IF content # <<>>
              THEN yield([request EXCEPT !.fullResponse = @ \o content,
                                         !.llm = rest],
                         now, "chunk", NULL)
              ELSE request
  /\ UNCHANGED <<dbVars, sequenceCounters, ret, calls, turn, worker>>

\* the stream ends; the tags of the response are extracted
StreamLLMEnd ==
  /\ request.pc = "llmStream"
  /\ request.llm = <<>>
  /\ LET responseEntities == extractEntities(request.fullResponse) IN
     request' = [request EXCEPT !.responseEntities = responseEntities,
                   !.pc = IF responseEntities # <<>> THEN "responseEntity"
                          ELSE "decide"]
  /\ UNCHANGED <<dbVars, sequenceCounters, ret, calls, turn, worker>>

\* mutant: the failure is swallowed and the turn goes on without a response
StreamLLMFails_GoesOn ==
  /\ request.pc \in {"llm", "llmStream"}
  /\ request.handler = "chatStream"
  /\ request' = [request EXCEPT !.llmFailed = TRUE, !.pc = "decide"]
  /\ UNCHANGED <<dbVars, sequenceCounters, ret, calls, turn, worker>>

\* the call of the model or its stream throws: the catch block of
\* processMessageStream yields an error event and the generator returns
StreamLLMFails ==
  /\ request.pc \in {"llm", "llmStream"}
  /\ request.handler = "chatStream"
  /\ \E now \in Now(request) :
       request' = yield([request EXCEPT !.llmFailed = TRUE, !.pc = "done"],
                        now, "error", NULL)
  /\ UNCHANGED <<dbVars, sequenceCounters, ret, calls, turn, worker>>

\* step 10 of processMessage: the completion, whose content may be null
UnaryLLM ==
  /\ request.pc = "llm"
  /\ request.handler = "chat"
  /\ \E hasContent \in BOOLEAN, content \in StreamResponses :
       LET responseContent == IF hasContent THEN content ELSE Str_unable
           responseEntities == extractEntities(responseContent)
       IN request' = [request EXCEPT !.fullResponse = responseContent,
                        !.responseEntities = responseEntities,
                        !.pc = IF responseEntities # <<>> THEN "responseEntity"
                               ELSE "decide"]
  /\ UNCHANGED <<dbVars, sequenceCounters, ret, calls, turn, worker>>

\* step 10 of processMessage: the call throws and the catch block puts the
\* apology in place of the response
UnaryLLMFails ==
  /\ request.pc = "llm"
  /\ request.handler = "chat"
  /\ LET responseEntities == extractEntities(Str_apology) IN
     request' = [request EXCEPT !.llmFailed = TRUE,
                   !.fullResponse = Str_apology,
                   !.responseEntities = responseEntities,
                   !.pc = IF responseEntities # <<>> THEN "responseEntity"
                          ELSE "decide"]
  /\ UNCHANGED <<dbVars, sequenceCounters, ret, calls, turn, worker>>

\* findOrCreateEntity of the next response tag
ReqResponseEntity ==
  /\ request.pc = "responseEntity"
  /\ LET ent == Head(request.responseEntities) IN
     /\ findOrCreateEntity(request.nearAccountId, request.trajectoryId,
                           ent.name, ent.type)
     /\ request' = [request EXCEPT !.entityId = ret'.output,
                      !.responseEntities = Tail(@), !.pc = "responseEvent"]
  /\ UNCHANGED <<conversation, message, calls, turn, worker>>

\* discover when the entity is not among entitiesTouched, touch otherwise,
\* and the event of the same type
ReqResponseEvent ==
  /\ request.pc = "responseEvent"
  /\ LET type == IF request.entityId \notin Range(request.entitiesTouched)
                   THEN "discover" ELSE "touch"
         next == IF request.responseEntities # <<>> THEN "responseEntity"
                 ELSE "decide"
     IN /\ logEvent(request.trajectoryId, type, request.entityId, TRUE)
        /\ \E now \in Now(request) :
             request' = yield([request EXCEPT !.pc = next,
                                 !.entitiesDiscovered =
                                    IF type = "discover"
                                      THEN Append(@, request.entityId) ELSE @],
                              now, "trajectory_event", type)
  /\ UNCHANGED <<conversation, message, calls, turn, worker>>

\* the decide event yielded without the event row having been written
ReqDecide_YieldsUnlogged ==
  /\ request.pc = "decide"
  /\ \E now \in Now(request) :
       request' = yield([request EXCEPT !.pc = "complete"],
                        now, "trajectory_event", "decide")
  /\ UNCHANGED <<conversation, message, calls, turn, worker, trajectory,
                 event, entity, entityContribution, edge, cooccurrence,
                 sequenceCounters, ret>>

\* logEvent(decide) and the decide event
ReqDecide ==
  /\ request.pc = "decide"
  /\ logEvent(request.trajectoryId, "decide", NoId, TRUE)
  /\ \E now \in Now(request) :
       request' = yield([request EXCEPT !.pc = "complete"],
                        now, "trajectory_event", "decide")
  /\ UNCHANGED <<conversation, message, calls, turn, worker>>

\* completeTrajectory as the request runs it, one step per awaited group of
\* store statements (trajectory.ts:296-414)

\* the update of the trajectory row: completedAt and summary
ReqCompleteMark ==
  /\ request.pc = "complete"
  /\ trajectory' = [trajectory EXCEPT
       ![request.trajectoryId].completedAt = TRUE,
       ![request.trajectoryId].summary =
          Str_ResponseTo \o slice(request.message, TitleLen) \o Str_ellipsis]
  /\ request' = [request EXCEPT !.pc = "completeSelect"]
  /\ UNCHANGED <<conversation, message, event, entity, entityContribution,
                 edge, cooccurrence, sequenceCounters, ret, calls, turn,
                 worker>>

\* the select of the events, ordered by sequenceNum
ReqCompleteSelect ==
  /\ request.pc = "completeSelect"
  /\ \E events \in orderBySequenceNum(event[request.trajectoryId]) :
       request' = [request EXCEPT !.events = events,
                                  !.pc = "completeEntities"]
  /\ UNCHANGED <<dbVars, sequenceCounters, ret, calls, turn, worker>>

\* trajectoryCount + 1 on the entities of the trajectory
ReqCompleteEntities ==
  /\ request.pc = "completeEntities"
  /\ LET all == allEntityIds(request.events) IN
     entity' = IF Len(all) > 0 THEN incrementTrajectoryCount(entity, all)
               ELSE entity
  /\ request' = [request EXCEPT !.pc = "completeContributions"]
  /\ UNCHANGED <<conversation, message, trajectory, event, entityContribution,
                 edge, cooccurrence, sequenceCounters, ret, calls, turn,
                 worker>>

\* trajectoryCount + 1 on the contributions of the account
ReqCompleteContributions ==
  /\ request.pc = "completeContributions"
  /\ entityContribution' =
       incrementContributionTrajectoryCount(entityContribution,
          allEntityIds(request.events), request.nearAccountId)
  /\ request' = [request EXCEPT !.pc = "completeCooccurrences"]
  /\ UNCHANGED <<conversation, message, trajectory, event, entity, edge,
                 cooccurrence, sequenceCounters, ret, calls, turn, worker>>

ReqCompleteCooccurrences ==
  /\ request.pc = "completeCooccurrences"
  /\ cooccurrence' =
       updateCooccurrences(cooccurrence, allEntityIds(request.events))
  /\ request' = [request EXCEPT !.pc = "completeEdges"]
  /\ UNCHANGED <<conversation, message, trajectory, event, entity,
                 entityContribution, edge, sequenceCounters, ret, calls, turn,
                 worker>>

ReqCompleteEdges ==
  /\ request.pc = "completeEdges"
  /\ LET strengthened ==
           strengthenEdges(edge, touchedEntityIds(request.events))
     IN /\ edge' = strengthened.edge
        /\ request' = [request EXCEPT !.edgesTraversed = strengthened.edges,
                                      !.pc = "completeOutcomes"]
  /\ UNCHANGED <<conversation, message, trajectory, event, entity,
                 entityContribution, cooccurrence, sequenceCounters, ret,
                 calls, turn, worker>>

ReqCompleteOutcomes ==
  /\ request.pc = "completeOutcomes"
  /\ edge' = trackOutcomes(edge, entity, allEntityIds(request.events))
  /\ request' = [request EXCEPT !.pc = "completeReturn"]
  /\ UNCHANGED <<conversation, message, trajectory, event, entity,
                 entityContribution, cooccurrence, sequenceCounters, ret,
                 calls, turn, worker>>

\* the select of the entity details, the cleanup of the counter, the return
ReqCompleteReturn ==
  /\ request.pc = "completeReturn"
  /\ sequenceCounters' = MapDelete(sequenceCounters, request.trajectoryId)
  /\ ret' = [call |-> "completeTrajectory",
             input |-> <<request.trajectoryId, request.nearAccountId>>,
             output |->
               [entitiesDiscovered |->
                  entityInfos(entity, discoveredEntityIds(request.events)),
                entitiesTouched |->
                  entityInfos(entity, touchedEntityIds(request.events)),
                edgesTraversed |-> request.edgesTraversed]]
  /\ request' = [request EXCEPT !.pc = "persist"]
  /\ UNCHANGED <<dbVars, calls, turn, worker>>

\* save the assistant message, set the title of the new conversation; the
\* complete event of processMessageStream, the ChatResponse of processMessage
ReqPersist ==
  /\ request.pc = "persist"
  /\ message' = Append(message,
       [conversationId |-> request.convId, role |-> "assistant",
        content |-> request.fullResponse,
        trajectoryId |-> request.trajectoryId])
  /\ conversation' = [conversation EXCEPT ![request.convId].title =
       slice(request.message, TitleLen)
         \o (IF Len(request.message) > TitleLen THEN Str_ellipsis ELSE <<>>)]
  /\ \E now \in Now(request) :
       request' = yield([request EXCEPT !.pc = "done",
                           !.result = IF request.handler = "chat"
                                        THEN "response" ELSE @],
                        now, "complete", NULL)
  /\ UNCHANGED <<engineVars, calls, turn, worker>>

\* the positions at which the orchestrator awaits the store
StorePcs ==
  {"saveUserMessage", "userEntity", "userTouch", "simulate", "reason",
   "responseEntity", "responseEvent", "decide", "complete", "completeSelect",
   "completeEntities", "completeContributions", "completeCooccurrences",
   "completeEdges", "completeOutcomes", "completeReturn", "persist"}

\* mutant: no catch block, the generator ends without an event
StoreThrows_Uncaught ==
  /\ request.pc \in StorePcs
  /\ request' = [request EXCEPT !.pc = "done",
                   !.result = IF request.handler = "chat" THEN "throws" ELSE @]
  /\ UNCHANGED <<dbVars, sequenceCounters, ret, calls, turn, worker>>

\* the store rejects the next statement: processMessageStream catches the
\* error and yields an error event, processMessage rejects
StoreThrows ==
  /\ request.pc \in StorePcs
  /\ \E now \in Now(request) :
       request' = yield([request EXCEPT !.pc = "done",
                           !.result = IF request.handler = "chat"
                                        THEN "throws" ELSE @],
                        now, "error", NULL)
  /\ UNCHANGED <<dbVars, sequenceCounters, ret, calls, turn, worker>>

\* the caller disconnects: the signal of the chatStream handler is aborted
Abort ==
  /\ Active(request)
  /\ request.handler = "chatStream"
  /\ ~request.aborted
  /\ request' = [request EXCEPT !.aborted = TRUE]
  /\ UNCHANGED <<dbVars, sequenceCounters, ret, calls, turn, worker>>

\* the process dies
Crash ==
  /\ Active(request)
  /\ request' = [request EXCEPT !.pc = "crashed"]
  /\ UNCHANGED <<dbVars, sequenceCounters, ret, calls, turn, worker>>

InitRequest ==
  /\ conversation = <<>>
  /\ message = <<>>
  /\ trajectory = <<>>
  /\ event = <<>>
  /\ entity = <<>>
  /\ entityContribution = <<>>
  /\ edge = <<>>
  /\ cooccurrence = <<>>
  /\ sequenceCounters = <<>>
  /\ ret = [call |-> "none", input |-> <<>>, output |-> <<>>]
  /\ calls = 0
  /\ turn = IdleTurn
  /\ worker = [w \in Workers |-> IdleWorker]
  /\ \E agentService \in BOOLEAN :
       request = [IdleRequest EXCEPT !.agentService = agentService]

NextRequest ==
  \/ ChatStreamNoAgent
  \/ ChatNoAgent
  \/ ReqStart
  \/ ReqSaveUserMessage
  \/ ReqUserEntity
  \/ ReqUserTouch
  \/ ReqSimulate
  \/ ReqReason
  \/ StreamLLMCreate
  \/ StreamChunk
  \/ StreamLLMEnd
  \/ StreamLLMFails
  \/ UnaryLLM
  \/ UnaryLLMFails
  \/ ReqResponseEntity
  \/ ReqResponseEvent
  \/ ReqDecide
  \/ ReqCompleteMark
  \/ ReqCompleteSelect
  \/ ReqCompleteEntities
  \/ ReqCompleteContributions
  \/ ReqCompleteCooccurrences
  \/ ReqCompleteEdges
  \/ ReqCompleteOutcomes
  \/ ReqCompleteReturn
  \/ ReqPersist
  \/ StoreThrows
  \/ Abort
  \/ Crash

SpecRequest == InitRequest /\ [][NextRequest]_vars


\* ------------------- concurrent turns on the TrajectoryEngine (SpecRace)
\* Two callers of the engine run one turn each: startTrajectory, then
\* findOrCreateEntity and logEvent(touch) for each mention of the turn
\* (agent.ts:317-333), then completeTrajectory (agent.ts:467-471); the reason
\* and decide events a turn also logs name no entity and are left out.  A
\* call suspends at every await of a store statement and the statements of
\* the two callers interleave; no statement runs in a transaction.
Mention_s == [name |-> <<"s">>, type |-> NULL]
Mention_S == [name |-> <<" ", "S">>, type |-> Str_strategy]
Mention_sTopic == [name |-> <<"s">>, type |-> Str_topic]
Mention_o == [name |-> <<"o">>, type |-> Str_outcome]

\* the mentions of the turn of caller w, in the order the turn meets them
RaceScripts(w) ==
  IF w = 1 THEN {<<Mention_s, Mention_S>>, <<Mention_S, Mention_o>>}
  ELSE {<<Mention_sTopic, Mention_o>>, <<Mention_S, Mention_o>>}

\* the two turns are turns of one account or of two
RaceAccounts(w) == IF w = 1 THEN {"alice.near"} ELSE Accounts

\* a caller that has not started its turn; increments lists the entity ids
\* whose touchCount the caller has incremented so far
IdleRacer ==
  [pc |-> "idle", nearAccountId |-> "", trajectoryId |-> NoId,
   script |-> <<>>, done |-> 0, existing |-> NoId, existingRow |-> <<>>,
   entityId |-> NoId, increments |-> <<>>, touched |-> <<>>, all |-> <<>>,
   i |-> 0, j |-> 0, pairs |-> <<>>, edges |-> <<>>]

InitRace ==
  /\ conversation = <<>>
  /\ message = <<>>
  /\ trajectory = <<>>
  /\ event = <<>>
  /\ entity = <<>>
  /\ entityContribution = <<>>
  /\ edge = <<>>
  /\ cooccurrence = <<>>
  /\ sequenceCounters = <<>>
  /\ ret = [call |-> "none", input |-> <<>>, output |-> <<>>]
  /\ calls = 0
  /\ turn = IdleTurn
  /\ worker = [w \in Workers |-> IdleRacer]
  /\ request = IdleRequest

\* what a step of a caller leaves alone besides the store
raceFrame == <<conversation, message, calls, turn, request>>

RStartTrajectory(w) ==
  /\ worker[w].pc = "idle"
  /\ \E a \in RaceAccounts(w), script \in RaceScripts(w) :
       /\ startTrajectory(a, <<>>, NoId)
       /\ worker' = [worker EXCEPT ![w].pc = "selectEntity",
                       ![w].nearAccountId = a, ![w].script = script,
                       ![w].trajectoryId = ret'.output]
  /\ UNCHANGED raceFrame

\* findOrCreateEntity of the next mention: the select by normalizedName
\* (trajectory.ts:178-185)
RSelectEntity(w) ==
  /\ worker[w].pc = "selectEntity"
  /\ LET m == worker[w].script[worker[w].done + 1] IN
     \E existing \in selectEntity(entity, normalize(m.name)) :
       worker' = [worker EXCEPT ![w].pc = "writeEntity",
                    ![w].existing = existing,
                    ![w].existingRow =
                       IF existing # NoId THEN entity[existing] ELSE <<>>]
  /\ UNCHANGED <<dbVars, sequenceCounters, ret, raceFrame>>

\* the update of the row read, or the insert of a new row
\* (trajectory.ts:189-220)
RWriteEntity(w) ==
  /\ worker[w].pc = "writeEntity"
  /\ LET m == worker[w].script[worker[w].done + 1]
         existing == worker[w].existing
         entityId == IF existing # NoId THEN existing ELSE freshId(entity)
     IN /\ entity' =
             IF existing # NoId
               THEN updateEntityStats(entity, entityId, worker[w].existingRow,
                                      m.type)
               ELSE insertEntity(entity, entityId, m.name, normalize(m.name),
                                 m.type)
        /\ worker' = [worker EXCEPT ![w].pc = "selectContribution",
                        ![w].entityId = entityId,
                        ![w].increments =
                           IF existing # NoId THEN Append(@, entityId) ELSE @]
  /\ UNCHANGED <<conversation, message, trajectory, event, entityContribution,
                 edge, cooccurrence, sequenceCounters, ret, calls, turn, request>>

\* trackContribution: the select of the contribution row (trajectory.ts:238-247)
RSelectContribution(w) ==
  /\ worker[w].pc = "selectContribution"
  /\ \E existing \in selectContribution(entityContribution, worker[w].entityId,
                                        worker[w].nearAccountId) :
       worker' = [worker EXCEPT ![w].pc = "writeContribution",
                    ![w].existing = existing,
                    ![w].existingRow =
                       IF existing # NoId THEN entityContribution[existing]
                       ELSE <<>>]
  /\ UNCHANGED <<dbVars, sequenceCounters, ret, raceFrame>>

\* trackContribution: the update of the row read, after which
\* findOrCreateEntity returns, or the insert of a new row
\* (trajectory.ts:249-269)
RWriteContribution(w) ==
  /\ worker[w].pc = "writeContribution"
  /\ IF worker[w].existing # NoId
       THEN /\ entityContribution' =
                 updateContribution(entityContribution, worker[w].existing,
                                    worker[w].existingRow)
            /\ worker' = [worker EXCEPT ![w].pc = "insertEvent"]
       ELSE /\ entityContribution' =
                 insertContribution(entityContribution, worker[w].entityId,
                    worker[w].nearAccountId, worker[w].trajectoryId)
            /\ worker' = [worker EXCEPT ![w].pc = "incrementContributorCount"]
  /\ UNCHANGED <<conversation, message, trajectory, event, entity, edge,
                 cooccurrence, sequenceCounters, ret, calls, turn, request>>

\* trackContribution: contributorCount + 1, and findOrCreateEntity returns
\* (trajectory.ts:271-277, 225)
RIncrementContributorCount(w) ==
  /\ worker[w].pc = "incrementContributorCount"
  /\ entity' = incrementContributorCount(entity, worker[w].entityId)
  /\ worker' = [worker EXCEPT ![w].pc = "insertEvent"]
  /\ UNCHANGED <<conversation, message, trajectory, event, entityContribution,
                 edge, cooccurrence, sequenceCounters, ret, calls, turn, request>>

\* logEvent(touch): the counter is advanced and the event row inserted
\* (trajectory.ts:130-149)
RInsertEvent(w) ==
  /\ worker[w].pc = "insertEvent"
  /\ LET trajectoryId == worker[w].trajectoryId
         sequenceNum == IF trajectoryId \in DOMAIN sequenceCounters
                          THEN sequenceCounters[trajectoryId] ELSE 0
     IN /\ sequenceCounters' =
             MapSet(sequenceCounters, trajectoryId, sequenceNum + 1)
        /\ event' = [event EXCEPT ![trajectoryId] = Append(@,
              [sequenceNum |-> sequenceNum, eventType |-> "touch",
               entityId |-> worker[w].entityId])]
  /\ worker' = [worker EXCEPT ![w].pc = "touchEntity"]
  /\ UNCHANGED <<conversation, message, trajectory, entity, entityContribution,
                 edge, cooccurrence, ret, calls, turn, request>>

\* where a caller goes on after the contribution loop of completeTrajectory:
\* the loop heads of updateCooccurrences, strengthenEdges and trackOutcomes
\* (trajectory.ts:529-531, 586-591, 656)
afterEdges(r) ==
  IF Len(r.all) = 0 THEN [r EXCEPT !.pc = "completeReturn"]
  ELSE [r EXCEPT !.pc = "selectOutcomeEntities"]

RECURSIVE edgeHead(_)
edgeHead(r) ==
  IF r.i > Len(r.touched) - 1 THEN afterEdges(r)
  ELSE IF r.touched[r.i] = r.touched[r.i + 1]
    THEN edgeHead([r EXCEPT !.i = @ + 1])
  ELSE [r EXCEPT !.pc = "selectEdge"]

afterCooccurrences(r) ==
  IF Len(r.touched) < 2 THEN afterEdges(r) ELSE edgeHead([r EXCEPT !.i = 1])

RECURSIVE cooccurrenceHead(_)
cooccurrenceHead(r) ==
  IF r.i > Len(r.all) THEN afterCooccurrences(r)
  ELSE IF r.j > Len(r.all)
    THEN cooccurrenceHead([r EXCEPT !.i = @ + 1, !.j = r.i + 2])
  ELSE [r EXCEPT !.pc = "selectCooccurrence"]

afterContributions(r) ==
  IF Len(r.all) < 2 THEN afterCooccurrences(r)
  ELSE cooccurrenceHead([r EXCEPT !.i = 1, !.j = 2])

contributionHead(r) ==
  IF r.i > Len(r.all) THEN afterContributions(r)
  ELSE [r EXCEPT !.pc = "completeContribution"]

\* logEvent(touch): touchCount + 1 on the entity row (trajectory.ts:151-160);
\* then the next mention, or completeTrajectory
RTouchEntity(w) ==
  /\ worker[w].pc = "touchEntity"
  /\ entity' = [entity EXCEPT ![worker[w].entityId].touchCount = @ + 1]
  /\ worker' = [worker EXCEPT
       ![w].increments = Append(@, worker[w].entityId),
       ![w].done = @ + 1,
       ![w].pc = IF worker[w].done + 1 < Len(worker[w].script)
                   THEN "selectEntity" ELSE "completeMark"]
  /\ UNCHANGED <<conversation, message, trajectory, event, entityContribution,
                 edge, cooccurrence, sequenceCounters, ret, calls, turn, request>>

\* completeTrajectory: completedAt and summary are written
\* (trajectory.ts:296-303)
RCompleteMark(w) ==
  /\ worker[w].pc = "completeMark"
  /\ trajectory' = [trajectory EXCEPT
       ![worker[w].trajectoryId].completedAt = TRUE,
       ![worker[w].trajectoryId].summary = NULL]
  /\ worker' = [worker EXCEPT ![w].pc = "completeSelect"]
  /\ UNCHANGED <<conversation, message, event, entity, entityContribution,
                 edge, cooccurrence, sequenceCounters, ret, calls, turn, request>>

\* the events are selected and the id lists built (trajectory.ts:306-331)
RCompleteSelect(w) ==
  /\ worker[w].pc = "completeSelect"
  /\ \E events \in orderBySequenceNum(event[worker[w].trajectoryId]) :
       LET r == [worker[w] EXCEPT !.touched = touchedEntityIds(events),
                                  !.all = allEntityIds(events), !.i = 1]
       IN worker' = [worker EXCEPT ![w] =
            IF Len(r.all) > 0 THEN [r EXCEPT !.pc = "completeEntities"]
            ELSE contributionHead(r)]
  /\ UNCHANGED <<dbVars, sequenceCounters, ret, raceFrame>>

\* trajectoryCount + 1 on the entities of the trajectory (trajectory.ts:334-341)
RCompleteEntities(w) ==
  /\ worker[w].pc = "completeEntities"
  /\ entity' = incrementTrajectoryCount(entity, worker[w].all)
  /\ worker' = [worker EXCEPT ![w] = contributionHead(worker[w])]
  /\ UNCHANGED <<conversation, message, trajectory, event, entityContribution,
                 edge, cooccurrence, sequenceCounters, ret, calls, turn, request>>

\* one iteration of the loop over the contribution rows (trajectory.ts:344-357)
RCompleteContribution(w) ==
  /\ worker[w].pc = "completeContribution"
  /\ entityContribution' =
       incrementContributionTrajectoryCount(entityContribution,
         <<worker[w].all[worker[w].i]>>, worker[w].nearAccountId)
  /\ worker' = [worker EXCEPT ![w] =
       contributionHead([worker[w] EXCEPT !.i = @ + 1])]
  /\ UNCHANGED <<conversation, message, trajectory, event, entity, edge,
                 cooccurrence, sequenceCounters, ret, calls, turn, request>>

\* the row a select by primary key returns, <<>> when there is none
selectById(table, id) == IF id \in DOMAIN table THEN table[id] ELSE <<>>

\* updateCooccurrences: the select of the row of the sorted pair
\* (trajectory.ts:533-541)
RSelectCooccurrence(w) ==
  /\ worker[w].pc = "selectCooccurrence"
  /\ LET sorted == sortPair(worker[w].all[worker[w].i],
                            worker[w].all[worker[w].j])
     IN worker' = [worker EXCEPT ![w].pc = "writeCooccurrence",
                     ![w].existingRow = selectById(cooccurrence, sorted)]
  /\ UNCHANGED <<dbVars, sequenceCounters, ret, raceFrame>>

\* the update of a cooccurrence row with the counts of the row read
\* (trajectory.ts:543-558)
updateCooccurrence(cooc, coocId, existing) ==
  [cooc EXCEPT ![coocId].count = existing.count + 1,
               ![coocId].windowCount = existing.windowCount + 1,
               ![coocId].trajectoryCount = existing.trajectoryCount + 1]

\* the row updateCooccurrences inserts (trajectory.ts:559-569)
newCooccurrenceRow(entityA, entityB) ==
  [entityA |-> entityA, entityB |-> entityB,
   count |-> 1, windowCount |-> 1, trajectoryCount |-> 1,
   contributorCount |-> 1]

\* the call rejects: the exception of the store leaves completeTrajectory
\* and the turn (no try block in trajectory.ts:285-418)
throws(w) == worker' = [worker EXCEPT ![w].pc = "failed"]

\* the update, or the insert, which the store rejects when a row with the
\* primary key has been inserted since the select (id is the primary key
\* of cooccurrence and of edge, trajectory.ts:859, 899)
RWriteCooccurrence(w) ==
  /\ worker[w].pc = "writeCooccurrence"
  /\ LET sorted == sortPair(worker[w].all[worker[w].i],
                            worker[w].all[worker[w].j])
         existing == worker[w].existingRow
     IN IF existing # <<>>
          THEN /\ cooccurrence' = updateCooccurrence(cooccurrence, sorted, existing)
               /\ worker' = [worker EXCEPT ![w] =
                    cooccurrenceHead([worker[w] EXCEPT !.j = @ + 1])]
          ELSE IF sorted \in DOMAIN cooccurrence
            THEN /\ throws(w)
                 /\ UNCHANGED cooccurrence
          ELSE /\ cooccurrence' = MapSet(cooccurrence, sorted,
                    newCooccurrenceRow(sorted[1], sorted[2]))
               /\ worker' = [worker EXCEPT ![w] =
                    cooccurrenceHead([worker[w] EXCEPT !.j = @ + 1])]
  /\ UNCHANGED <<conversation, message, trajectory, event, entity,
                 entityContribution, edge, sequenceCounters, ret, calls, turn,
                 request>>

\* strengthenEdges: the select of the edge touched[i] -> touched[i + 1]
\* (trajectory.ts:593-599)
RSelectEdge(w) ==
  /\ worker[w].pc = "selectEdge"
  /\ LET edgeId == <<worker[w].touched[worker[w].i],
                     worker[w].touched[worker[w].i + 1]>>
     IN worker' = [worker EXCEPT ![w].pc = "writeEdge",
                     ![w].existingRow = selectById(edge, edgeId)]
  /\ UNCHANGED <<dbVars, sequenceCounters, ret, raceFrame>>

\* the update of an edge row with the counts of the row read
\* (trajectory.ts:601-609, 680-688)
updateEdge(edg, edgeId, existing) ==
  [edg EXCEPT ![edgeId].weight = existing.weight + 1,
              ![edgeId].trajectoryCount = existing.trajectoryCount + 1]

\* the update or the insert of strengthenEdges, and the EdgeInfo pushed
\* (trajectory.ts:601-640)
RWriteEdge(w) ==
  /\ worker[w].pc = "writeEdge"
  /\ LET sourceId == worker[w].touched[worker[w].i]
         targetId == worker[w].touched[worker[w].i + 1]
         edgeId == <<sourceId, targetId>>
         existing == worker[w].existingRow
         weight == IF existing # <<>> THEN existing.weight + 1 ELSE 1
         info == [id |-> edgeId, sourceEntityId |-> sourceId,
                  targetEntityId |-> targetId,
                  relationshipType |->
                     IF existing # <<>> THEN existing.relationshipType
                     ELSE NULL,
                  weight |-> weight]
         next == edgeHead([worker[w] EXCEPT !.i = @ + 1,
                                            !.edges = Append(@, info)])
     IN IF existing # <<>>
          THEN /\ edge' = updateEdge(edge, edgeId, existing)
               /\ worker' = [worker EXCEPT ![w] = next]
          ELSE IF edgeId \in DOMAIN edge
            THEN /\ throws(w)
                 /\ UNCHANGED edge
          ELSE /\ edge' = MapSet(edge, edgeId, newEdgeRow(sourceId, targetId, NULL))
               /\ worker' = [worker EXCEPT ![w] = next]
  /\ UNCHANGED <<conversation, message, trajectory, event, entity,
                 entityContribution, cooccurrence, sequenceCounters, ret, calls,
                 turn, request>>

\* the elements of a set of pairs as a list
RECURSIVE listOf(_)
listOf(set) ==
  IF set = {} THEN <<>>
  ELSE LET x == CHOOSE y \in set : TRUE IN <<x>> \o listOf(set \ {x})

\* trackOutcomes: the entities are selected and split by type
\* (trajectory.ts:659-667); pairs is what the two loops will visit
RSelectOutcomeEntities(w) ==
  /\ worker[w].pc = "selectOutcomeEntities"
  /\ LET entities == {id \in DOMAIN entity : id \in Range(worker[w].all)}
         outcomes == {id \in entities : entity[id].entityType = Str_outcome}
         strategies == {id \in entities : entity[id].entityType = Str_strategy}
     IN worker' = [worker EXCEPT ![w] =
          IF outcomes = {} \/ strategies = {}
            THEN [@ EXCEPT !.pc = "completeReturn"]
            ELSE [@ EXCEPT !.pc = "selectOutcomeEdge",
                           !.pairs = listOf(strategies \X outcomes)]]
  /\ UNCHANGED <<dbVars, sequenceCounters, ret, raceFrame>>

\* trackOutcomes: the select of the edge strategy -> outcome
\* (trajectory.ts:672-678)
RSelectOutcomeEdge(w) ==
  /\ worker[w].pc = "selectOutcomeEdge"
  /\ worker' = [worker EXCEPT ![w].pc = "writeOutcomeEdge",
                  ![w].existingRow = selectById(edge, Head(worker[w].pairs))]
  /\ UNCHANGED <<dbVars, sequenceCounters, ret, raceFrame>>

\* the update or the insert of trackOutcomes (trajectory.ts:680-703)
RWriteOutcomeEdge(w) ==
  /\ worker[w].pc = "writeOutcomeEdge"
  /\ LET edgeId == Head(worker[w].pairs)
         existing == worker[w].existingRow
         next == [worker[w] EXCEPT !.pairs = Tail(@),
                    !.pc = IF Tail(worker[w].pairs) = <<>>
                             THEN "completeReturn" ELSE "selectOutcomeEdge"]
     IN IF existing # <<>>
          THEN /\ edge' = updateEdge(edge, edgeId, existing)
               /\ worker' = [worker EXCEPT ![w] = next]
          ELSE IF edgeId \in DOMAIN edge
            THEN /\ throws(w)
                 /\ UNCHANGED edge
          ELSE /\ edge' = MapSet(edge, edgeId,
                    newEdgeRow(edgeId[1], edgeId[2], Str_leads_to))
               /\ worker' = [worker EXCEPT ![w] = next]
  /\ UNCHANGED <<conversation, message, trajectory, event, entity,
                 entityContribution, cooccurrence, sequenceCounters, ret, calls,
                 turn, request>>

\* the entities are selected, the counter of the trajectory is dropped and
\* the call returns (trajectory.ts:379-417)
RCompleteReturn(w) ==
  /\ worker[w].pc = "completeReturn"
  /\ sequenceCounters' = MapDelete(sequenceCounters, worker[w].trajectoryId)
  /\ ret' = [call |-> "completeTrajectory",
             input |-> <<worker[w].trajectoryId, worker[w].nearAccountId>>,
             output |-> [entitiesDiscovered |-> <<>>,  \* no discover event
                         entitiesTouched |-> entityInfos(entity, worker[w].touched),
                         edgesTraversed |-> worker[w].edges]]
  /\ worker' = [worker EXCEPT ![w].pc = "done"]
  /\ UNCHANGED <<dbVars, raceFrame>>

NextRace ==
  \E w \in Workers :
    \/ RStartTrajectory(w)
    \/ RSelectEntity(w)
    \/ RWriteEntity(w)
    \/ RSelectContribution(w)
    \/ RWriteContribution(w)
    \/ RIncrementContributorCount(w)
    \/ RInsertEvent(w)
    \/ RTouchEntity(w)
    \/ RCompleteMark(w)
    \/ RCompleteSelect(w)
    \/ RCompleteEntities(w)
    \/ RCompleteContribution(w)
    \/ RSelectCooccurrence(w)
    \/ RWriteCooccurrence(w)
    \/ RSelectEdge(w)
    \/ RWriteEdge(w)
    \/ RSelectOutcomeEntities(w)
    \/ RSelectOutcomeEdge(w)
    \/ RWriteOutcomeEdge(w)
    \/ RCompleteReturn(w)

SpecRace == InitRace /\ [][NextRace]_vars


\* ------------------------------------------- GraphReasoner (SpecReason)
\* JavaScript numbers in the reasoner are IEEE-754 binary64.  A number here
\* is sign and magnitude, the magnitude a multiple of 2^-58 below 4 held in
\* two limbs of 30 bits (magnitude = (hi * 2^30 + lo) / 2^58): every
\* binary64 value between 2^-5 and 4, and every sum or difference of two
\* such values, is such a multiple.  Each operation rounds its exact result
\* to 53 significant bits, ties to even, as the hardware does.
Limb == 2^30

Num(neg, hi, lo) == [neg |-> neg, hi |-> hi, lo |-> lo]
Num_0 == Num(FALSE, 0, 0)
Num_1 == Num(FALSE, 268435456, 0)

\* the number of bits of n < 2^31
bitLength(n) ==
  IF n = 0 THEN 0 ELSE CHOOSE k \in 1..31 : 2^(k - 1) <= n /\ n < 2^k

\* the magnitude rounded to 53 significant bits; sticky: the exact value has
\* further non-zero bits below lo
round53(x, sticky) ==
  LET len == IF x.hi > 0 THEN 30 + bitLength(x.hi) ELSE bitLength(x.lo)
      d == len - 53
  IN IF d <= 0 THEN x
     ELSE LET p == 2^d
              low == x.lo % p
              half == p \div 2
              kept == x.lo - low
              up == \/ low > half
                    \/ low = half /\ (sticky \/ (x.lo \div p) % 2 = 1)
          IN IF ~up THEN [x EXCEPT !.lo = kept]
             ELSE IF kept + p = Limb THEN [x EXCEPT !.hi = @ + 1, !.lo = 0]
             ELSE [x EXCEPT !.lo = kept + p]

\* w / t for integers 0 < w <= t < 2^5: long division to 58 fractional bits,
\* then the rounding
numDivide(w, t) ==
  LET a1 == (w * 16384) \div t
      r1 == (w * 16384) % t
      a2 == (r1 * 16384) \div t
      r2 == (r1 * 16384) % t
      a3 == (r2 * 32768) \div t
      r3 == (r2 * 32768) % t
      a4 == (r3 * 32768) \div t
      r4 == (r3 * 32768) % t
  IN round53(Num(FALSE, a1 * 16384 + a2, a3 * 32768 + a4), r4 > 0)

\* magnitudes compared
magLess(x, y) == x.hi < y.hi \/ (x.hi = y.hi /\ x.lo < y.lo)

magAdd(x, y) ==
  LET lo == x.lo + y.lo
      carry == IF lo >= Limb THEN 1 ELSE 0
  IN round53(Num(x.neg, x.hi + y.hi + carry, lo - carry * Limb), FALSE)

\* for a magnitude x not less than y
magSubtract(x, y) ==
  LET borrow == IF x.lo < y.lo THEN 1 ELSE 0
  IN round53(Num(x.neg, x.hi - y.hi - borrow, x.lo + borrow * Limb - y.lo),
             FALSE)

\* x + y
numAdd(x, y) ==
  IF x.neg = y.neg THEN magAdd(x, y)
  ELSE IF magLess(x, y) THEN magSubtract(y, x)
  ELSE IF magLess(y, x) THEN magSubtract(x, y)
  ELSE Num_0

\* x - y
numSubtract(x, y) ==
  numAdd(x, IF y.hi = 0 /\ y.lo = 0 THEN y ELSE [y EXCEPT !.neg = ~y.neg])

\* Math.abs
abs(x) == [x EXCEPT !.neg = FALSE]

\* x < y
numLess(x, y) ==
  IF x.neg /\ ~y.neg THEN x.hi # 0 \/ x.lo # 0 \/ y.hi # 0 \/ y.lo # 0
  ELSE IF ~x.neg /\ y.neg THEN FALSE
  ELSE IF x.neg THEN magLess(y, x)
  ELSE magLess(x, y)

\* the literal 0.05: the binary64 value nearest to 1/20
Num_0_05 == numDivide(1, 20)

\* String.prototype.includes
RECURSIVE includes(_, _)
includes(text, part) ==
  IF Len(part) > Len(text) THEN FALSE
  ELSE IF SubSeq(text, 1, Len(part)) = part THEN TRUE
  ELSE includes(Tail(text), part)

\* text LIKE pattern in SQLite: % any run of characters, _ any one
\* character, letters without regard to case
RECURSIVE like(_, _)
like(text, pattern) ==
  IF pattern = <<>> THEN text = <<>>
  ELSE IF Head(pattern) = "%"
    THEN \/ like(text, Tail(pattern))
         \/ text # <<>> /\ like(Tail(text), pattern)
  ELSE /\ text # <<>>
       /\ \/ Head(pattern) = "_"
          \/ LowerChar(Head(pattern)) = LowerChar(Head(text))
       /\ like(Tail(text), Tail(pattern))

\* the orders in which a select without order by may return the rows
RECURSIVE Orderings(_)
Orderings(rows) ==
  IF rows = {} THEN {<<>>}
  ELSE UNION {{<<r>> \o rest : rest \in Orderings(rows \ {r})} : r \in rows}

\* order by weight desc: rows of equal weight come in any order
RECURSIVE orderByWeightDesc(_, _)
orderByWeightDesc(edg, rows) ==
  IF rows = {} THEN {<<>>}
  ELSE UNION {{<<r>> \o rest : rest \in orderByWeightDesc(edg, rows \ {r})} :
              r \in {x \in rows :
                       \A y \in rows :
                         edg[y.edge].weight <= edg[x.edge].weight}}

\* the rows an input resolves to: the exact match, else the partial match
\* with the greatest touchCount, else none (NoId)
resolveEntity(ent, input) ==
  LET normalized == trim(toLowerCase(input.name))
      typed(id) == input.type # NULL => ent[id].entityType = input.type
      exact == {id \in DOMAIN ent :
                  ent[id].normalizedName = normalized /\ typed(id)}
      partial == {id \in DOMAIN ent :
                    /\ like(ent[id].normalizedName,
                            <<"%">> \o normalized \o <<"%">>)
                    /\ typed(id)}
  IN IF exact # {} THEN exact
     ELSE IF partial # {}
       THEN {id \in partial :
               \A other \in partial :
                 ent[other].touchCount <= ent[id].touchCount}
     ELSE {NoId}

resolvedEntity(ent, id) ==
  [id |-> id, name |-> ent[id].name, entityType |-> ent[id].entityType,
   touchCount |-> ent[id].touchCount,
   trajectoryCount |-> ent[id].trajectoryCount,
   contributorCount |-> ent[id].contributorCount]

\* the results resolveEntities may return
RECURSIVE resolveEntities(_, _)
resolveEntities(ent, inputs) ==
  IF inputs = <<>> THEN {[resolved |-> <<>>, unresolved |-> <<>>]}
  ELSE {IF id # NoId
          THEN [rest EXCEPT !.resolved = <<resolvedEntity(ent, id)>> \o @]
          ELSE [rest EXCEPT !.unresolved = <<Head(inputs).name>> \o @] :
        id \in resolveEntity(ent, Head(inputs)),
        rest \in resolveEntities(ent, Tail(inputs))}

\* the loop adding the contributorCount of the edges of one outcome up
RECURSIVE mergeOutcomes_SumsContributors(_, _, _)
mergeOutcomes_SumsContributors(edg, allEdges, outcomeMap) ==
  IF allEdges = <<>> THEN outcomeMap
  ELSE LET row == Head(allEdges)
           e == edg[row.edge]
           at == {i \in 1..Len(outcomeMap) :
                    outcomeMap[i].outcomeId = row.outcome}
       IN mergeOutcomes_SumsContributors(edg, Tail(allEdges),
            IF at # {}
              THEN LET i == CHOOSE x \in at : TRUE IN
                   [outcomeMap EXCEPT
                      ![i].totalWeight = @ + e.weight,
                      ![i].positiveCount = @ + e.positiveOutcomes,
                      ![i].negativeCount = @ + e.negativeOutcomes,
                      ![i].mixedCount = @ + e.mixedOutcomes,
                      ![i].contributorCount = @ + e.contributorCount]
              ELSE Append(outcomeMap,
                     [outcomeId |-> row.outcome, totalWeight |-> e.weight,
                      positiveCount |-> e.positiveOutcomes,
                      negativeCount |-> e.negativeOutcomes,
                      mixedCount |-> e.mixedOutcomes,
                      contributorCount |-> e.contributorCount]))

\* the loop over allEdges filling outcomeMap: the entries in insertion order
RECURSIVE mergeOutcomes(_, _, _)
mergeOutcomes(edg, allEdges, outcomeMap) ==
  IF allEdges = <<>> THEN outcomeMap
  ELSE LET row == Head(allEdges)
           e == edg[row.edge]
           at == {i \in 1..Len(outcomeMap) :
                    outcomeMap[i].outcomeId = row.outcome}
       IN mergeOutcomes(edg, Tail(allEdges),
            IF at # {}
              THEN LET i == CHOOSE x \in at : TRUE IN
                   [outcomeMap EXCEPT
                      ![i].totalWeight = @ + e.weight,
                      ![i].positiveCount = @ + e.positiveOutcomes,
                      ![i].negativeCount = @ + e.negativeOutcomes,
                      ![i].mixedCount = @ + e.mixedOutcomes,
                      ![i].contributorCount =
                         IF e.contributorCount > @ THEN e.contributorCount
                         ELSE @]
              ELSE Append(outcomeMap,
                     [outcomeId |-> row.outcome, totalWeight |-> e.weight,
                      positiveCount |-> e.positiveOutcomes,
                      negativeCount |-> e.negativeOutcomes,
                      mixedCount |-> e.mixedOutcomes,
                      contributorCount |-> e.contributorCount]))

RECURSIVE sumOf(_, _)
sumOf(list, field) ==
  IF list = <<>> THEN 0 ELSE Head(list)[field] + sumOf(Tail(list), field)

\* Array.prototype.sort with a comparator (a, b) => key(b) - key(a): a
\* stable sort, greatest key first; keys[i] is the key of list[i]
sortDescending(list, keys) ==
  LET n == Len(list)
      pos(i) == 1 + Cardinality({j \in 1..n : numLess(keys[i], keys[j])})
                  + Cardinality({j \in 1..(i - 1) :
                       ~numLess(keys[j], keys[i]) /\ ~numLess(keys[i], keys[j])})
  IN [p \in 1..n |-> list[CHOOSE i \in 1..n : pos(i) = p]]

\* a probability over one more than the total weight
probability_OfLargerTotal(weight, totalWeight) ==
  IF totalWeight > 0 THEN numDivide(weight, totalWeight + 1) ELSE Num_0

\* totalWeight > 0 ? data.totalWeight / totalWeight : 0
probability(weight, totalWeight) ==
  IF totalWeight > 0 THEN numDivide(weight, totalWeight) ELSE Num_0

\* the lists projectOutcomesFromEdges may return for the input entity ids
projectOutcomesFromEdges(ent, edg, inputEntityIds) ==
  LET outcomeEdges ==
        {[edge |-> k, outcome |-> edg[k].targetEntityId] :
           k \in {x \in DOMAIN edg :
                    /\ edg[x].sourceEntityId \in inputEntityIds
                    /\ edg[x].targetEntityId \in DOMAIN ent
                    /\ ent[edg[x].targetEntityId].entityType = Str_outcome}}
      reverseEdges ==
        {[edge |-> k, outcome |-> edg[k].sourceEntityId] :
           k \in {x \in DOMAIN edg :
                    /\ edg[x].targetEntityId \in inputEntityIds
                    /\ edg[x].sourceEntityId \in DOMAIN ent
                    /\ ent[edg[x].sourceEntityId].entityType = Str_outcome}}
      byWeight == orderByWeightDesc(edg, outcomeEdges)
      projections(allEdges) ==
        LET outcomeMap == mergeOutcomes(edg, allEdges, <<>>)
            totalWeight == sumOf(outcomeMap, "totalWeight")
            list == [i \in 1..Len(outcomeMap) |->
                       [outcome |-> ent[outcomeMap[i].outcomeId].name,
                        outcomeId |-> outcomeMap[i].outcomeId,
                        probability |->
                           probability(outcomeMap[i].totalWeight, totalWeight),
                        evidence |->
                           [edgeWeight |-> outcomeMap[i].totalWeight,
                            positiveCount |-> outcomeMap[i].positiveCount,
                            negativeCount |-> outcomeMap[i].negativeCount,
                            mixedCount |-> outcomeMap[i].mixedCount,
                            contributorCount |-> outcomeMap[i].contributorCount]]]
        IN sortDescending(list, [i \in 1..Len(list) |-> list[i].probability])
  IN IF outcomeEdges = {} THEN {<<>>}
     ELSE {projections(f \o r) : f \in byWeight, r \in Orderings(reverseEdges)}

\* ---------------------------------------------------------- differentiators
Str_context == <<"c","o","n","t","e","x","t">>
Str_constraint == <<"c","o","n","s","t","r","a","i","n","t">>
Num_0_5 == numDivide(1, 2)
Num_0_1 == numDivide(1, 10)

\* the rows of the join of cooccurrence with entity: a co-occurrence row
\* with an input at one end, joined with each of its two entities whose
\* type is context, constraint or strategy
cooccurrenceRows(ent, cooc, inputEntityIds) ==
  {r \in [cooc : DOMAIN cooc, entity : DOMAIN ent] :
     /\ r.entity \in {cooc[r.cooc].entityA, cooc[r.cooc].entityB}
     /\ \/ cooc[r.cooc].entityA \in inputEntityIds
        \/ cooc[r.cooc].entityB \in inputEntityIds
     /\ ent[r.entity].entityType \in {Str_context, Str_constraint, Str_strategy}}

\* orderBy(desc(cooccurrence.count)): rows of equal count in any order
RECURSIVE orderByCountDesc(_, _)
orderByCountDesc(cooc, rows) ==
  IF rows = {} THEN {<<>>}
  ELSE UNION {{<<r>> \o rest : rest \in orderByCountDesc(cooc, rows \ {r})} :
              r \in {x \in rows :
                       \A y \in rows : cooc[y.cooc].count <= cooc[x.cooc].count}}

\* the edges from the entity to entities of type outcome
getOutcomeEdgesForEntity(ent, edg, entityId) ==
  {e \in DOMAIN edg :
     /\ edg[e].sourceEntityId = entityId
     /\ edg[e].targetEntityId \in DOMAIN ent
     /\ ent[edg[e].targetEntityId].entityType = Str_outcome}

\* outcomeEdges.reduce((sum, e) => sum + e[field], 0)
RECURSIVE reduceSum(_, _, _)
reduceSum(edg, outcomeEdges, field) ==
  IF outcomeEdges = {} THEN 0
  ELSE LET e == CHOOSE x \in outcomeEdges : TRUE
       IN edg[e][field] + reduceSum(edg, outcomeEdges \ {e}, field)

computeOutcomeShift(edg, outcomeEdges) ==
  LET totalWeight == reduceSum(edg, outcomeEdges, "weight")
      totalPositive == reduceSum(edg, outcomeEdges, "positiveOutcomes")
      totalNegative == reduceSum(edg, outcomeEdges, "negativeOutcomes")
      totalOutcomes == totalPositive + totalNegative
      positiveRate == IF totalOutcomes > 0
                        THEN numDivide(totalPositive, totalOutcomes)
                        ELSE Num_0_5
      baselineRate == Num_0_5
      magnitude == abs(numSubtract(positiveRate, baselineRate))
  IN [effect |-> IF numLess(numAdd(baselineRate, Num_0_1), positiveRate)
                   THEN "improves"
                 ELSE IF numLess(positiveRate, numSubtract(baselineRate, Num_0_1))
                   THEN "reduces"
                 ELSE "mixed",
      magnitude |-> magnitude,
      positiveRate |-> positiveRate,
      totalWeight |-> totalWeight]

\* the rows findDifferentiatorsFromStructure goes through: those whose
\* entity is not an input
candidateRows(ent, cooc, inputEntityIds) ==
  {r \in cooccurrenceRows(ent, cooc, inputEntityIds) :
     r.entity \notin inputEntityIds}

\* the candidate is pushed: Math.abs(outcomeShift.magnitude) > 0.1
differentiates(ent, edg, r) ==
  numLess(Num_0_1,
          abs(computeOutcomeShift(edg,
                getOutcomeEdgesForEntity(ent, edg, r.entity)).magnitude))

\* the Differentiator pushed for a candidate row
differentiator(ent, edg, cooc, r) ==
  LET outcomeShift == computeOutcomeShift(edg,
                        getOutcomeEdgesForEntity(ent, edg, r.entity))
  IN [entity |-> r.entity, role |-> ent[r.entity].entityType,
      effect |-> outcomeShift.effect, magnitude |-> outcomeShift.magnitude,
      cooccurrenceStrength |-> cooc[r.cooc].count]

\* the lists findDifferentiatorsFromStructure may return: the candidates are
\* the first 20 rows in the order of the select, those of magnitude above
\* 0.1 are pushed in that order, sorted by magnitude and cut to 5. With at
\* most 20 rows only the order among the pushed rows matters.
findDifferentiatorsFromStructure(ent, edg, cooc, inputEntityIds) ==
  LET rows == candidateRows(ent, cooc, inputEntityIds)
      lists == IF Cardinality(rows) <= 20
                 THEN orderByCountDesc(cooc,
                        {r \in rows : differentiates(ent, edg, r)})
                 ELSE {SelectSeq(SubSeq(o, 1, 20),
                                 LAMBDA r : differentiates(ent, edg, r)) :
                       o \in orderByCountDesc(cooc, rows)}
      pushed(list) == [i \in 1..Len(list) |->
                         differentiator(ent, edg, cooc, list[i])]
      sorted(list) == sortDescending(pushed(list),
                        [i \in 1..Len(list) |-> pushed(list)[i].magnitude])
  IN {SubSeq(sorted(list), 1, IF Len(list) < 5 THEN Len(list) ELSE 5) :
      list \in lists}

emptyResult(inputs, unresolved) ==
  [input |-> [resolved |-> <<>>, unresolved |-> unresolved],
   outcomes |-> <<>>,
   differentiators |-> <<>>,
   evidence |-> [totalObservations |-> 0, outcomeCount |-> 0,
                 hasPatterns |-> FALSE]]

\* the results simulate may return on the tables ent, edg (the
\* differentiators, which read the cooccurrence table, are not part of the
\* result here)
simulate(ent, edg, cooc, inputs) ==
  UNION {
    IF r.resolved = <<>> THEN {emptyResult(inputs, r.unresolved)}
    ELSE LET entityIds == {r.resolved[i].id : i \in 1..Len(r.resolved)} IN
         {[input |-> r,
           outcomes |-> outcomes,
           differentiators |-> differentiators,
           evidence |->
              [totalObservations |->
                  sumOf([i \in 1..Len(outcomes) |-> outcomes[i].evidence],
                        "edgeWeight"),
               outcomeCount |-> Len(outcomes),
               hasPatterns |-> Len(outcomes) > 0 \/ Len(differentiators) > 0]] :
          outcomes \in projectOutcomesFromEdges(ent, edg, entityIds),
          differentiators \in
            findDifferentiatorsFromStructure(ent, edg, cooc, entityIds)} :
    r \in resolveEntities(ent, inputs)}

Str_positiveOutcomes ==
  {<<"i","m","p","r","o","v","e","d">>, <<"s","u","c","c","e","s","s">>,
   <<"u","n","d","e","r","s","t","a","n","d","i","n","g">>,
   <<"m","a","s","t","e","r","y">>, <<"e","f","f","e","c","t","i","v","e">>}

\* outcomeShifts.filter(...).reduce((sum, s) => sum + s.delta, 0)
RECURSIVE positiveShift(_, _)
positiveShift(outcomeShifts, sum) ==
  IF outcomeShifts = <<>> THEN sum
  ELSE LET s == Head(outcomeShifts) IN
       positiveShift(Tail(outcomeShifts),
         IF \E p \in Str_positiveOutcomes : includes(toLowerCase(s.outcome), p)
           THEN numAdd(sum, s.delta) ELSE sum)

\* the netEffect from the shift and the evidence; a comparison without the
\* check of the evidence
netEffect_IgnoresEvidence(shift, minEvidence) ==
  IF numLess(abs(shift), Num_0_05) THEN "neutral"
  ELSE IF numLess(Num_0, shift) THEN "positive"
  ELSE "negative"

netEffect(shift, minEvidence) ==
  IF minEvidence < 5 THEN "uncertain"
  ELSE IF numLess(abs(shift), Num_0_05) THEN "neutral"
  ELSE IF numLess(Num_0, shift) THEN "positive"
  ELSE "negative"

\* the probability of the first outcome of that name, 0 when there is none
probabilityOf(outcomes, outcome) ==
  LET at == {i \in 1..Len(outcomes) : outcomes[i].outcome = outcome}
  IN IF at = {} THEN Num_0
     ELSE outcomes[CHOOSE i \in at : \A j \in at : i <= j].probability

compareOutcomes(original, alternative, change) ==
  LET allOutcomes ==
        Unique([i \in 1..Len(original.outcomes) |-> original.outcomes[i].outcome]
               \o [i \in 1..Len(alternative.outcomes) |->
                     alternative.outcomes[i].outcome])
      shifts == [i \in 1..Len(allOutcomes) |->
        LET origProb == probabilityOf(original.outcomes, allOutcomes[i])
            altProb == probabilityOf(alternative.outcomes, allOutcomes[i])
        IN [outcome |-> allOutcomes[i], originalProbability |-> origProb,
            alternativeProbability |-> altProb,
            delta |-> numSubtract(altProb, origProb)]]
      outcomeShifts ==
        sortDescending(shifts, [i \in 1..Len(shifts) |-> abs(shifts[i].delta)])
      minEvidence ==
        IF original.evidence.totalObservations
             < alternative.evidence.totalObservations
          THEN original.evidence.totalObservations
          ELSE alternative.evidence.totalObservations
  IN [outcomeShifts |-> outcomeShifts,
      netEffect |-> netEffect(positiveShift(outcomeShifts, Num_0), minEvidence)]

\* the alternative inputs counterfactual simulates
alternativeInputs(baseInputs, change) ==
  LET matchesFrom(input) ==
        /\ toLowerCase(input.name) = toLowerCase(change.from.name)
        /\ (change.from.type = NULL \/ input.type = change.from.type)
      mapped == [i \in 1..Len(baseInputs) |->
                   IF matchesFrom(baseInputs[i]) THEN change.to
                   ELSE baseInputs[i]]
      swapped == \E i \in 1..Len(baseInputs) :
                   mapped[i].name # baseInputs[i].name
      filtered == SelectSeq(baseInputs,
                    LAMBDA input :
                      toLowerCase(input.name) # toLowerCase(change.from.name))
  IN IF swapped THEN mapped ELSE Append(filtered, change.to)

\* the results counterfactual may return
counterfactual(ent, edg, cooc, baseInputs, change) ==
  {[original |-> original, alternative |-> alternative, change |-> change,
    comparison |-> compareOutcomes(original, alternative, change)] :
   original \in simulate(ent, edg, cooc, baseInputs),
   alternative \in simulate(ent, edg, cooc,
                            alternativeInputs(baseInputs, change))}

\* --------------------------------------------- queries over a grown graph
\* The graph the reasoner reads is the one chat turns have written: each
\* past turn makes the engine calls of processMessage for the entities its
\* message mentions (agent.ts:293-467), one call a step; simulate and
\* counterfactual (index.ts:293-303) are served between turns.
Str_recall == <<"r","e","c","a","l","l">>
Str_quiz == <<"q","u","i","z">>
Str_success == <<"s","u","c","c","e","s","s">>
Str_fail == <<"f","a","i","l">>
Str_bored == <<"b","o","r","e","d">>
Str_call == <<"c","a","l","l">>

\* the mentions of the messages of past turns
HistoricTurns ==
  {<<[name |-> Str_recall, type |-> Str_strategy],
     [name |-> Str_quiz, type |-> Str_strategy],
     [name |-> Str_success, type |-> Str_outcome],
     [name |-> Str_fail, type |-> Str_outcome],
     [name |-> Str_bored, type |-> Str_outcome]>>,
   <<[name |-> Str_call, type |-> Str_topic]>>}

In_recall == [name |-> Str_recall, type |-> Str_strategy]
In_quiz == [name |-> Str_quiz, type |-> Str_strategy]
In_bored == [name |-> Str_bored, type |-> NULL]
In_call == [name |-> Str_call, type |-> NULL]

\* input.entities of a simulate request
SimulateInputs ==
  {<<In_recall>>, <<In_quiz>>, <<In_recall, In_quiz>>, <<In_bored>>,
   <<In_call>>}

\* input.baseEntities and input.change of a counterfactual request
CounterfactualInputs ==
  {[baseEntities |-> <<a>>, change |-> [from |-> a, to |-> b]] :
     a \in {In_recall, In_quiz}, b \in {In_recall, In_quiz, In_call}}
  \ {[baseEntities |-> <<In_quiz>>,
       change |-> [from |-> In_quiz, to |-> In_quiz]]}

\* no past turn in progress
IdlePast ==
  [pc |-> "idle", nearAccountId |-> "", script |-> <<>>, i |-> 0,
   trajectoryId |-> NoId, entityId |-> NoId]

InitReason ==
  /\ conversation = <<>>
  /\ message = <<>>
  /\ trajectory = <<>>
  /\ event = <<>>
  /\ entity = <<>>
  /\ entityContribution = <<>>
  /\ edge = <<>>
  /\ cooccurrence = <<>>
  /\ sequenceCounters = <<>>
  /\ ret = [call |-> "none", input |-> <<>>, output |-> <<>>]
  /\ calls = 0
  /\ turn = IdlePast
  /\ worker = [w \in Workers |-> IdleWorker]
  /\ request = IdleRequest

\* the account of the n-th past turn: the two accounts take turns
PastAccount(n) == IF n % 2 = 0 THEN "alice.near" ELSE "bob.near"

reasonFrame == <<conversation, message, worker, request>>

PastStart ==
  /\ turn.pc = "idle"
  /\ calls < MaxHistory
  /\ \E script \in HistoricTurns :
       /\ startTrajectory(PastAccount(calls), <<>>, NoId)
       /\ turn' = [pc |-> "find", nearAccountId |-> PastAccount(calls),
                   script |-> script, i |-> 1,
                   trajectoryId |-> freshId(trajectory), entityId |-> NoId]
  /\ calls' = calls + 1
  /\ UNCHANGED reasonFrame

PastFindOrCreateEntity ==
  /\ turn.pc = "find"
  /\ findOrCreateEntity(turn.nearAccountId, turn.trajectoryId,
                        turn.script[turn.i].name, turn.script[turn.i].type)
  /\ turn' = [turn EXCEPT !.pc = "touch", !.entityId = ret'.output]
  /\ UNCHANGED <<calls, reasonFrame>>

PastTouch ==
  /\ turn.pc = "touch"
  /\ logEvent(turn.trajectoryId, "touch", turn.entityId, TRUE)
  /\ turn' = [turn EXCEPT !.i = @ + 1,
                          !.pc = IF turn.i < Len(turn.script) THEN "find"
                                 ELSE "reason"]
  /\ UNCHANGED <<calls, reasonFrame>>

PastReason ==
  /\ turn.pc = "reason"
  /\ logEvent(turn.trajectoryId, "reason", NoId, TRUE)
  /\ turn' = [turn EXCEPT !.pc = "decide"]
  /\ UNCHANGED <<calls, reasonFrame>>

PastDecide ==
  /\ turn.pc = "decide"
  /\ logEvent(turn.trajectoryId, "decide", NoId, TRUE)
  /\ turn' = [turn EXCEPT !.pc = "complete"]
  /\ UNCHANGED <<calls, reasonFrame>>

PastComplete ==
  /\ turn.pc = "complete"
  /\ completeTrajectory(turn.trajectoryId, turn.nearAccountId, NULL)
  /\ turn' = IdlePast
  /\ UNCHANGED <<calls, reasonFrame>>

Simulate ==
  /\ turn.pc = "idle"
  /\ \E inputs \in SimulateInputs :
       \E result \in simulate(entity, edge, cooccurrence, inputs) :
         ret' = [call |-> "simulate", input |-> inputs, output |-> result]
  /\ UNCHANGED <<dbVars, sequenceCounters, calls, turn, worker, request>>

Counterfactual ==
  /\ turn.pc = "idle"
  /\ \E input \in CounterfactualInputs :
       \E result \in counterfactual(entity, edge, cooccurrence,
                                    input.baseEntities, input.change) :
         ret' = [call |-> "counterfactual", input |-> input,
                 output |-> result]
  /\ UNCHANGED <<dbVars, sequenceCounters, calls, turn, worker, request>>

NextReason ==
  \/ PastStart
  \/ PastFindOrCreateEntity
  \/ PastTouch
  \/ PastReason
  \/ PastDecide
  \/ PastComplete
  \/ Simulate
  \/ Counterfactual

SpecReason == InitReason /\ [][NextReason]_vars


\* ---------------------------------------------- the read handlers (SpecRead)
\* getEntity, getConversation and getTrajectory (index.ts:194-236, 279-287)
\* served between the chat turns of SpecChat.  The handlers pass the account
\* of the caller to getEntity only.

\* the trajectories of the rows of event that name the entity
trajectoriesOfEntity(entityId) ==
  {t \in DOMAIN event :
     \E i \in 1..Len(event[t]) : event[t][i].entityId = entityId}

\* the number of rows of event that name the entity
RECURSIVE eventCount(_, _)
eventCount(ts, entityId) ==
  IF ts = {} THEN 0
  ELSE LET t == CHOOSE x \in ts : TRUE
       IN Cardinality({i \in 1..Len(event[t]) :
                         event[t][i].entityId = entityId})
          + eventCount(ts \ {t}, entityId)

\* [...new Set(events.map(e => e.trajectoryId))].slice(0, 5) over the 10
\* latest events of the entity: every trajectory of these events when they
\* are at most 10 events of at most 5 trajectories, else some of them (which
\* ones depends on the timestamps)
recentTrajectoryIds(entityId) ==
  LET all == trajectoriesOfEntity(entityId) IN
  IF eventCount(all, entityId) <= 10 /\ Cardinality(all) <= 5 THEN {all}
  ELSE {s \in SUBSET all : 1 <= Cardinality(s) /\ Cardinality(s) <= 5}

\* the results GraphService.getEntity may return; NULL is null
getEntity(nearAccountId, entityId) ==
  LET trajectoryIds == {t \in DOMAIN trajectory :
                          trajectory[t].nearAccountId = nearAccountId}
      edges == {[edge |-> k] :
                  k \in {x \in DOMAIN edge :
                           \/ edge[x].sourceEntityId = entityId
                           \/ edge[x].targetEntityId = entityId}}
      connected(e) ==
        LET otherId == IF e.sourceEntityId = entityId THEN e.targetEntityId
                       ELSE e.sourceEntityId
        IN [entity |-> [id |-> otherId, name |-> entity[otherId].name,
                        entityType |-> entity[otherId].entityType,
                        touchCount |-> entity[otherId].touchCount],
            relationship |-> e.relationshipType, weight |-> e.weight]
  IN IF entityId \notin DOMAIN entity THEN {NULL}
     ELSE IF trajectoryIds \cap trajectoriesOfEntity(entityId) = {}
       THEN {NULL}
     ELSE {[entity |-> [id |-> entityId, name |-> entity[entityId].name,
                        entityType |-> entity[entityId].entityType,
                        touchCount |-> entity[entityId].touchCount],
            connectedEntities |->
               [i \in 1..Len(rows) |-> connected(edge[rows[i].edge])],
            recentTrajectories |->
               [i \in 1..Len(ts) |->
                  [id |-> ts[i], inputText |-> trajectory[ts[i]].inputText,
                   summary |-> trajectory[ts[i]].summary,
                   completedAt |-> trajectory[ts[i]].completedAt]]] :
           rows \in orderByWeightDesc(edge, edges),
           ts \in UNION {Orderings(recent) :
                           recent \in recentTrajectoryIds(entityId)}}

\* AgentService.getConversation; NULL is null
getConversation(conversationId) ==
  IF conversationId \notin DOMAIN conversation THEN NULL
  ELSE [conversation |-> [id |-> conversationId,
                          title |-> conversation[conversationId].title],
        messages |->
           LET at == SelectSeq([i \in 1..Len(message) |-> i],
                       LAMBDA i : message[i].conversationId = conversationId)
           IN [k \in 1..Len(at) |->
                 [role |-> message[at[k]].role,
                  content |-> message[at[k]].content,
                  trajectoryId |-> message[at[k]].trajectoryId]]]

\* the results TrajectoryEngine.getTrajectory may return; NULL is null
getTrajectory(id) ==
  IF id \notin DOMAIN trajectory THEN {NULL}
  ELSE {[trajectory |-> [id |-> id, inputText |-> trajectory[id].inputText,
                         summary |-> trajectory[id].summary,
                         completedAt |-> trajectory[id].completedAt],
         events |-> events,
         entitiesTouched |-> entityInfos(entity, entities)] :
        events \in orderBySequenceNum(event[id]),
        entities \in Orderings({event[id][i].entityId :
                                  i \in 1..Len(event[id])} \ {NoId})}

\* the handlers answer NOT_FOUND for null
GetEntity ==
  /\ turn.pc = "idle"
  /\ \E nearAccountId \in Accounts,
        id \in DOMAIN entity \cup {freshId(entity)} :
       \E result \in getEntity(nearAccountId, id) :
         ret' = [call |-> "getEntity", input |-> <<nearAccountId, id>>,
                 output |-> result]
  /\ UNCHANGED <<dbVars, sequenceCounters, calls, turn, worker, request>>

GetConversation ==
  /\ turn.pc = "idle"
  /\ \E nearAccountId \in Accounts,
        id \in DOMAIN conversation \cup {freshId(conversation)} :
       ret' = [call |-> "getConversation", input |-> <<nearAccountId, id>>,
               output |-> getConversation(id)]
  /\ UNCHANGED <<dbVars, sequenceCounters, calls, turn, worker, request>>

GetTrajectory ==
  /\ turn.pc = "idle"
  /\ \E nearAccountId \in Accounts,
        id \in DOMAIN trajectory \cup {freshId(trajectory)} :
       \E result \in getTrajectory(id) :
         ret' = [call |-> "getTrajectory", input |-> <<nearAccountId, id>>,
                 output |-> result]
  /\ UNCHANGED <<dbVars, sequenceCounters, calls, turn, worker, request>>

NextRead ==
  \/ NextChat
  \/ GetEntity
  \/ GetConversation
  \/ GetTrajectory

SpecRead == Init /\ [][NextRead]_vars

\* ------------------------------------------------ tag parsing (SpecTags)
\* extractEntities applied to a text, and again to the text that writes each
\* entity it returned as a tag [[type:name]].
TagChars == {"[", "]", ":", "a", " "}

\* the texts of at most MaxTextLen characters
Texts == UNION {[1..n -> TagChars] : n \in 0..MaxTextLen}

\* the entities written as tags, one after the other
RECURSIVE Emit(_)
Emit(entities) ==
  IF entities = <<>> THEN <<>>
  ELSE Tag(Head(entities).type, Head(entities).name) \o Emit(Tail(entities))

InitTags ==
  /\ conversation = <<>>
  /\ message = <<>>
  /\ trajectory = <<>>
  /\ event = <<>>
  /\ entity = <<>>
  /\ entityContribution = <<>>
  /\ edge = <<>>
  /\ cooccurrence = <<>>
  /\ sequenceCounters = <<>>
  /\ \E text \in Texts :
       ret = [call |-> "none", input |-> text, output |-> <<>>]
  /\ calls = 0
  /\ turn = IdleTurn
  /\ worker = [w \in Workers |-> IdleWorker]
  /\ request = IdleRequest

\* extractEntities(text)
ExtractEntities ==
  /\ ret.call = "none"
  /\ ret' = [call |-> "extractEntities", input |-> ret.input,
             output |-> extractEntities(ret.input)]
  /\ UNCHANGED <<dbVars, sequenceCounters, calls, turn, worker, request>>

\* extractEntities of the tags of the entities returned
ExtractEmitted ==
  /\ ret.call = "extractEntities"
  /\ ret' = [call |-> "extractEmitted", input |-> ret.output,
             output |-> extractEntities(Emit(ret.output))]
  /\ UNCHANGED <<dbVars, sequenceCounters, calls, turn, worker, request>>

NextTags ==
  \/ ExtractEntities
  \/ ExtractEmitted

SpecTags == InitTags /\ [][NextTags]_vars

\* ================================================================== claims
\* a step of Spec that is the engine call named
IsCall(name) == calls' = calls + 1 /\ ret'.call = name

\* the entity ids of the touch and discover events of trajectory t
EntitiesIn(t) ==
  {event[t][i].entityId : i \in {j \in 1..Len(event[t]) :
      /\ event[t][j].eventType \in {"touch", "discover"}
      /\ event[t][j].entityId # NoId}}

ContributionsOf(e) ==
  {c \in DOMAIN entityContribution : entityContribution[c].entityId = e}
ContributorsOf(e) ==
  {entityContribution[c].nearAccountId : c \in ContributionsOf(e)}

\* C1: a completeTrajectory call on a trajectory that is already completed
\* changes no counter of any entity, contribution, edge or co-occurrence row,
\* and returns what the completeTrajectory call before it returned.
C1_SecondCompleteIsNoOp ==
  [][\A t \in DOMAIN trajectory :
       (/\ trajectory[t].completedAt
        /\ IsCall("completeTrajectory")
        /\ ret'.input[1] = t)
       => /\ \A e \in DOMAIN entity :
               entity'[e].trajectoryCount = entity[e].trajectoryCount
          /\ \A c \in DOMAIN entityContribution :
               entityContribution'[c].trajectoryCount =
                 entityContribution[c].trajectoryCount
          /\ DOMAIN edge' = DOMAIN edge
          /\ \A k \in DOMAIN edge :
               /\ edge'[k].weight = edge[k].weight
               /\ edge'[k].trajectoryCount = edge[k].trajectoryCount
          /\ DOMAIN cooccurrence' = DOMAIN cooccurrence
          /\ \A k \in DOMAIN cooccurrence :
               /\ cooccurrence'[k].count = cooccurrence[k].count
               /\ cooccurrence'[k].windowCount = cooccurrence[k].windowCount
               /\ cooccurrence'[k].trajectoryCount = cooccurrence[k].trajectoryCount
          /\ (ret.call = "completeTrajectory" /\ ret.input[1] = t
                => ret'.output = ret.output)
    ]_vars

\* C3: the contributorCount of every entity is the number of distinct accounts
\* that have a contribution row for it.
C3_ContributorCountIsRowCount ==
  \A e \in DOMAIN entity :
    entity[e].contributorCount = Cardinality(ContributorsOf(e))

\* C5: the events of every trajectory carry the sequence numbers 0, 1, ...,
\* n-1 in insertion order, without gap or duplicate.
C5_SequenceNumsGapless ==
  \A t \in DOMAIN event :
    \A i \in 1..Len(event[t]) : event[t][i].sequenceNum = i - 1

\* C6: every edge row has weight >= trajectoryCount >= 1 and joins two
\* different entities.
C6_EdgeInvariant ==
  \A k \in DOMAIN edge :
    /\ edge[k].weight >= edge[k].trajectoryCount
    /\ edge[k].trajectoryCount >= 1
    /\ edge[k].sourceEntityId # edge[k].targetEntityId

\* an edge made by outcome tracking and an edge made by edge strengthening
C6_Witness ==
  /\ \E k \in DOMAIN edge : edge[k].relationshipType = Str_leads_to
  /\ \E k \in DOMAIN edge : edge[k].relationshipType = NULL

\* C7: the first completion of a trajectory that contains a strategy entity S
\* and an outcome entity O, on a graph without an edge S -> O, leaves an edge
\* S -> O with relationshipType "leads_to" and weight 1.
C7_OutcomeEdgeAfterCompletion ==
  [][\A t \in DOMAIN trajectory :
       (/\ ~trajectory[t].completedAt
        /\ IsCall("completeTrajectory")
        /\ ret'.input[1] = t)
       => \A S, O \in EntitiesIn(t) :
            (/\ entity[S].entityType = Str_strategy
             /\ entity[O].entityType = Str_outcome
             /\ <<S, O>> \notin DOMAIN edge)
            => /\ <<S, O>> \in DOMAIN edge'
               /\ edge'[<<S, O>>].relationshipType = Str_leads_to
               /\ edge'[<<S, O>>].weight = 1
    ]_vars

\* C10: a findOrCreateEntity call for a name whose entity exists returns the
\* id of that entity; afterwards the caller's account has exactly one
\* contribution row for it, and the call has raised contributorCount by one
\* when that row is new and left it unchanged when the account had one.
C10_FindOrCreateAgain ==
  [][IsCall("findOrCreateEntity") =>
       LET nearAccountId == ret'.input[1]
           normalizedName == normalize(ret'.input[3])
           entityId == ret'.output
           before == {e \in DOMAIN entity : entity[e].normalizedName = normalizedName}
           rowsBefore == {c \in ContributionsOf(entityId) :
                            entityContribution[c].nearAccountId = nearAccountId}
       IN /\ before # {} => before = {entityId}
          /\ Cardinality({c \in DOMAIN entityContribution' :
                 /\ entityContribution'[c].entityId = entityId
                 /\ entityContribution'[c].nearAccountId = nearAccountId}) = 1
          /\ \A c1, c2 \in DOMAIN entityContribution' :
               (/\ entityContribution'[c1].entityId = entityContribution'[c2].entityId
                /\ entityContribution'[c1].nearAccountId =
                     entityContribution'[c2].nearAccountId) => c1 = c2
          /\ before # {} =>
               entity'[entityId].contributorCount =
                 entity[entityId].contributorCount
                   + (IF rowsBefore = {} THEN 1 ELSE 0)
    ]_vars

\* an entity found from two trajectories of two accounts, the last call being
\* a repeat call of an account that already had its contribution row
C10_Witness ==
  /\ ret.call = "findOrCreateEntity"
  /\ Cardinality(ContributorsOf(ret.output)) = 2
  /\ \E c \in ContributionsOf(ret.output) :
       /\ entityContribution[c].nearAccountId = ret.input[1]
       /\ entityContribution[c].touchCount >= 2


\* ---- chat turns (SpecChat)
EntitiesNamed(normalizedName) ==
  {e \in DOMAIN entity : entity[e].normalizedName = normalizedName}

AssistantMessages ==
  {i \in 1..Len(message) : message[i].role = "assistant"}

\* no turn is in progress and every turn made so far had the user message
\* msg and ran to its complete event
CompletedTurnsOf(msg) ==
  /\ turn.pc = "idle"
  /\ DOMAIN trajectory # {}
  /\ \A t \in DOMAIN trajectory :
       /\ trajectory[t].inputText = msg
       /\ trajectory[t].completedAt
       /\ \E i \in AssistantMessages : message[i].trajectoryId = t

\* C4: every entity has touchCount >= trajectoryCount >= contributorCount >= 1
\* in every state chat turns reach.
C4_CounterOrder ==
  \A e \in DOMAIN entity :
    /\ entity[e].touchCount >= entity[e].trajectoryCount
    /\ entity[e].trajectoryCount >= entity[e].contributorCount
    /\ entity[e].contributorCount >= 1

\* C8: after k >= 1 completed turns of one account, all with the user message
\* [[topic:T]] [[strategy:s]] and an answer without tags, on a store that was
\* empty, the entities t and s have touchCount = k, trajectoryCount = k and
\* contributorCount = 1.
C8_CountsAfterKTurns ==
  (/\ CompletedTurnsOf(Msg_TS)
   /\ \A t1, t2 \in DOMAIN trajectory :
        trajectory[t1].nearAccountId = trajectory[t2].nearAccountId
   /\ \A i \in AssistantMessages : extractEntities(message[i].content) = <<>>)
  => LET k == Cardinality(DOMAIN trajectory) IN
     \A e \in EntitiesNamed(<<"t">>) \cup EntitiesNamed(<<"s">>) :
       /\ entity[e].touchCount = k
       /\ entity[e].trajectoryCount = k
       /\ entity[e].contributorCount = 1

\* C9: after k >= 1 completed turns of any accounts, all with the user message
\* [[topic:T]] [[strategy:s]], on a store that was empty, there is one edge
\* t -> s, of weight k, and one co-occurrence row of t and s, of count k.
C9_EdgeAndCooccurrenceAfterKTurns ==
  CompletedTurnsOf(Msg_TS)
  => LET k == Cardinality(DOMAIN trajectory) IN
     /\ Cardinality(EntitiesNamed(<<"t">>)) = 1
     /\ Cardinality(EntitiesNamed(<<"s">>)) = 1
     /\ \A T \in EntitiesNamed(<<"t">>), S \in EntitiesNamed(<<"s">>) :
          /\ <<T, S>> \in DOMAIN edge
          /\ edge[<<T, S>>].weight = k
          /\ edge[<<T, S>>].sourceEntityId = T
          /\ edge[<<T, S>>].targetEntityId = S
          /\ LET rows == {c \in DOMAIN cooccurrence :
                            {cooccurrence[c].entityA, cooccurrence[c].entityB} = {T, S}}
             IN /\ Cardinality(rows) = 1
                /\ \A c \in rows : cooccurrence[c].count = k

\* two completed turns with that message, by two accounts, one of them with
\* an answer that carries a tag
C9_Witness ==
  /\ CompletedTurnsOf(Msg_TS)
  /\ Cardinality(DOMAIN trajectory) = 2
  /\ \E t1, t2 \in DOMAIN trajectory :
       trajectory[t1].nearAccountId # trajectory[t2].nearAccountId
  /\ \E i \in AssistantMessages : extractEntities(message[i].content) # <<>>


\* ---- concurrent callers (SpecConc)
\* C2: whatever the interleaving of findOrCreateEntity calls, at most one
\* entity row per normalizedName exists, and the calls that have returned for
\* names with one normalizedName have returned one entityId.
C2_OneEntityPerName ==
  /\ \A e1, e2 \in DOMAIN entity :
       entity[e1].normalizedName = entity[e2].normalizedName => e1 = e2
  /\ \A w1, w2 \in Workers :
       (/\ worker[w1].returned # NoId /\ worker[w1].pc = "ready"
        /\ worker[w2].returned # NoId /\ worker[w2].pc = "ready"
        /\ worker[w1].normalizedName = worker[w2].normalizedName)
       => worker[w1].returned = worker[w2].returned

\* ---- failures and the event stream of one request (Spec, SpecRequest)
\* C12: a logEvent call for a trajectory whose completedAt is set appends no
\* event row and changes no entity counter.
C12_CompletedTrajectoryIsImmutable ==
  [][\A t \in DOMAIN trajectory :
       (/\ trajectory[t].completedAt
        /\ IsCall("logEvent")
        /\ ret'.input[1] = t)
       => /\ event' = event
          /\ entity' = entity
    ]_vars

\* the positions of a request inside completeTrajectory: the trajectory row
\* has been updated, a graph mutation is still to come
MidCompletionPcs ==
  {"completeSelect", "completeEntities", "completeContributions",
   "completeCooccurrences", "completeEdges", "completeOutcomes"}

\* C11: when the process crashes or a store statement throws after
\* completeTrajectory has started and before its last graph mutation, the
\* trajectory is left with completedAt unset.
C11_CrashLeavesTrajectoryOpen ==
  [][(/\ request.pc \in MidCompletionPcs
      /\ request'.pc \in EndedPcs)
     => ~trajectory'[request.trajectoryId].completedAt
    ]_vars

\* the events of one type (chunk, complete, error), or of one eventType of
\* the type trajectory_event, in a sequence of events
Kind(ev) == IF ev.type = "trajectory_event" THEN ev.eventType ELSE ev.type
IndicesOf(events, kinds) ==
  {i \in 1..Len(events) : Kind(events[i]) \in kinds}
Terminal(ev) == ev.type \in {"complete", "error"}

\* C13: when the call or the stream of the language model fails in
\* processMessageStream, the generator yields one error event, its only one,
\* after the events it had yielded, and ends; the trajectory keeps
\* completedAt unset and no assistant message is persisted.
C13_LLMFailureEndsStream ==
  /\ [](request.handler = "chatStream" /\ request.llmFailed
        => /\ request.pc \in EndedPcs
           /\ IndicesOf(request.yielded, {"error"}) = {Len(request.yielded)}
           /\ ~trajectory[request.trajectoryId].completedAt
           /\ AssistantMessages = {})
  /\ [][request'.handler = "chatStream"
        /\ request'.llmFailed /\ ~request.llmFailed
        => /\ Len(request'.yielded) = Len(request.yielded) + 1
           /\ SubSeq(request'.yielded, 1, Len(request.yielded))
                = request.yielded
           /\ SubSeq(request'.delivered, 1, Len(request.delivered))
                = request.delivered
       ]_vars

\* the stream of the model failed after a chunk had been yielded
C13_Witness ==
  /\ request.handler = "chatStream"
  /\ request.llmFailed
  /\ IndicesOf(request.yielded, {"chunk"}) # {}
  /\ IndicesOf(request.delivered, {"error"}) # {}

\* C14: a chat stream that ran to its end and was not cancelled has one
\* terminal event, complete or error, which is its last event; before its
\* end a stream has no terminal event.
C14_OneTerminalEvent ==
  request.handler = "chatStream" /\ request.pc # "crashed"
  => /\ \A i \in 1..Len(request.delivered) :
          Terminal(request.delivered[i])
            <=> (i = Len(request.delivered) /\ request.pc = "done")
     /\ request.pc = "done" => request.delivered # <<>>

\* a stream that ended with an error event after other events
C14_Witness ==
  /\ request.handler = "chatStream"
  /\ request.pc = "done"
  /\ Len(request.delivered) > 3
  /\ request.delivered[Len(request.delivered)].type = "error"
  /\ ~request.llmFailed

\* a stream that ran to its complete event
EndedWithComplete ==
  /\ request.handler = "chatStream"
  /\ request.pc = "done"
  /\ request.delivered # <<>>
  /\ request.delivered[Len(request.delivered)].type = "complete"

\* C15: in a stream that ends with complete the events are: trajectory_start,
\* one touch per tag extracted from the user message, simulate exactly when
\* there is such a tag, reason, chunk events only, touch and discover
\* events only, decide, complete.
C15_EventOrder ==
  EndedWithComplete =>
    LET d == request.delivered
        n == Len(d)
        m == Len(extractEntities(request.message))
        r == IF m > 0 THEN m + 3 ELSE 2
    IN /\ n >= r + 2
       /\ Kind(d[1]) = "trajectory_start"
       /\ \A i \in 2 .. m + 1 : Kind(d[i]) = "touch"
       /\ m > 0 => Kind(d[m + 2]) = "simulate"
       /\ Kind(d[r]) = "reason"
       /\ \E c \in r .. n - 2 :
            /\ \A i \in r + 1 .. c : Kind(d[i]) = "chunk"
            /\ \A i \in c + 1 .. n - 2 : Kind(d[i]) \in {"touch", "discover"}
       /\ Kind(d[n - 1]) = "decide"
       /\ Kind(d[n]) = "complete"

\* a complete stream with user tags, chunks and a touch and, in another
\* request, a discover for a tag of the response
C15_Witness ==
  /\ EndedWithComplete
  /\ IndicesOf(request.delivered, {"simulate"}) # {}
  /\ IndicesOf(request.delivered, {"chunk"}) # {}
  /\ \E i \in IndicesOf(request.delivered, {"touch"}) :
       \E j \in IndicesOf(request.delivered, {"chunk"}) : j < i

\* C16: a stream that ends with complete has one or more chunk events
\* between its reason event and its decide event.
C16_AtLeastOneChunk ==
  EndedWithComplete =>
    \E r \in IndicesOf(request.delivered, {"reason"}),
       c \in IndicesOf(request.delivered, {"chunk"}),
       k \in IndicesOf(request.delivered, {"decide"}) : r < c /\ c < k

\* C17: the ids of the events of one stream are pairwise distinct and
\* strictly increasing as strings.
C17_EventIdsIncrease ==
  \A i, j \in 1..Len(request.yielded) :
    i < j => /\ request.yielded[i].id # request.yielded[j].id
             /\ StrLess(request.yielded[i].id, request.yielded[j].id)

\* C18: once the cancellation signal is triggered, completeTrajectory is not
\* started, the assistant message is not persisted and no complete event is
\* delivered.
C18_AbortSkipsCompletion ==
  [][request.aborted
     => /\ ~(request.pc = "complete" /\ request'.pc = "completeSelect")
        /\ AssistantMessages' = AssistantMessages
        /\ IndicesOf(request'.delivered, {"complete"}) = {}
    ]_vars

\* C19: when the call of the language model fails in processMessage, no
\* ChatResponse is returned, the trajectory is not completed and no
\* assistant message is persisted.
C19_UnaryLLMFailureSurfaces ==
  request.handler = "chat" /\ request.llmFailed
  => /\ request.result # "response"
     /\ ~trajectory[request.trajectoryId].completedAt
     /\ AssistantMessages = {}

\* C20: without an agent service a chat stream has one event, of type
\* error, the unary chat returns the mock response, and no row is written.
C20_NoAgentService ==
  ~request.agentService
  => /\ conversation = <<>> /\ message = <<>> /\ trajectory = <<>>
     /\ event = <<>> /\ entity = <<>> /\ entityContribution = <<>>
     /\ edge = <<>> /\ cooccurrence = <<>>
     /\ request.pc \in {"idle", "done"}
     /\ request.pc = "done" /\ request.handler = "chatStream"
          => /\ Len(request.delivered) = 1
             /\ request.delivered[1].type = "error"
     /\ request.pc = "done" /\ request.handler = "chat"
          => request.result = "mock"

\* the stream of a request made without an agent service has ended
C20_Witness ==
  /\ ~request.agentService
  /\ request.handler = "chatStream"
  /\ request.pc = "done"

\* the ids of a list of EntityInfo
idsOf(infos) == [i \in 1..Len(infos) |-> infos[i].id]

\* the list without the elements that are in the set
RECURSIVE Without(_, _)
Without(list, set) ==
  IF list = <<>> THEN <<>>
  ELSE IF Head(list) \in set THEN Without(Tail(list), set)
  ELSE <<Head(list)>> \o Without(Tail(list), set)

\* C24: every cooccurrence row has entityA <= entityB and the id
\* entityA:entityB, and the completion of a trajectory that met two entities,
\* in whichever order, leaves the one row of the sorted pair.
C24_CooccurrenceCanonical ==
  /\ [](\A k \in DOMAIN cooccurrence :
          /\ cooccurrence[k].entityA <= cooccurrence[k].entityB
          /\ k = <<cooccurrence[k].entityA, cooccurrence[k].entityB>>)
  /\ [][IsCall("completeTrajectory") =>
          LET all == Unique(idsOf(ret'.output.entitiesTouched)
                            \o idsOf(ret'.output.entitiesDiscovered))
          IN \A i, j \in 1..Len(all) :
               i < j =>
                 LET lo == IF all[i] <= all[j] THEN all[i] ELSE all[j]
                     hi == IF all[i] <= all[j] THEN all[j] ELSE all[i]
                 IN /\ <<lo, hi>> \in DOMAIN cooccurrence'
                    /\ <<hi, lo>> \notin DOMAIN cooccurrence'
                    /\ cooccurrence'[<<lo, hi>>].count =
                         IF <<lo, hi>> \in DOMAIN cooccurrence
                           THEN cooccurrence[<<lo, hi>>].count + 1 ELSE 1]_vars

\* a completed trajectory that met the entity with the larger id first
C24_Witness ==
  /\ ret.call = "completeTrajectory"
  /\ LET all == Unique(idsOf(ret.output.entitiesTouched)
                       \o idsOf(ret.output.entitiesDiscovered))
     IN \E i, j \in 1..Len(all) :
          /\ i < j
          /\ all[i] > all[j]
          /\ <<all[j], all[i]>> \in DOMAIN cooccurrence

C26_DiscoveredExcludesTouched ==
  [][IsCall("completeTrajectory") =>
       \E events \in orderBySequenceNum(event[ret'.input[1]]) :
         LET touched == Unique(entityIdsOf(events, "touch"))
             discover == Unique(entityIdsOf(events, "discover"))
         IN /\ idsOf(ret'.output.entitiesTouched) = touched
            /\ idsOf(ret'.output.entitiesDiscovered) =
                 Without(discover, Range(touched))
            /\ Range(idsOf(ret'.output.entitiesTouched))
                 \cap Range(idsOf(ret'.output.entitiesDiscovered)) = {}]_vars

\* ---- concurrent turns (SpecRace)
\* how often id occurs in the list
RECURSIVE CountIn(_, _)
CountIn(list, id) ==
  IF list = <<>> THEN 0
  ELSE (IF Head(list) = id THEN 1 ELSE 0) + CountIn(Tail(list), id)

\* the touchCount increments the callers have issued on entity e
IncrementsOn(e) ==
  CountIn(worker[1].increments, e) + CountIn(worker[2].increments, e)

\* C21: whatever the interleaving of the turns, the touchCount of an entity
\* is the 1 it was inserted with plus the number of increments the
\* findOrCreateEntity and logEvent(touch) calls have issued on it.
C21_NoLostTouchIncrement ==
  \A e \in DOMAIN entity : entity[e].touchCount = 1 + IncrementsOn(e)

\* both callers have incremented one entity, and one of them did so between
\* the select and the update of the other's findOrCreateEntity
C21_Witness ==
  \E e \in DOMAIN entity :
    /\ CountIn(worker[1].increments, e) >= 1
    /\ CountIn(worker[2].increments, e) >= 1
    /\ \E w \in Workers :
         /\ worker[w].pc = "writeEntity"
         /\ worker[w].existing = e
         /\ worker[w].existingRow.touchCount < entity[e].touchCount

\* C22: concurrent completeTrajectory calls that upsert one edge key or one
\* co-occurrence key leave one row under the key, and none of the calls
\* fails: each goes on to its remaining graph updates.
C22_ConcurrentUpsertsComplete ==
  /\ \A k \in DOMAIN edge :
       k = <<edge[k].sourceEntityId, edge[k].targetEntityId>>
  /\ \A k \in DOMAIN cooccurrence :
       k = <<cooccurrence[k].entityA, cooccurrence[k].entityB>>
  /\ \A w \in Workers : worker[w].pc # "failed"

\* C23: once the entityType of an entity is not null, no step of a
\* findOrCreateEntity call changes it, whatever the interleaving.
C23_EntityTypeSticky ==
  [][\A e \in DOMAIN entity :
       entity[e].entityType # NULL
         => entity'[e].entityType = entity[e].entityType]_vars


\* ------------------------------------------------ GraphReasoner: simulate
resolvedIds(result) ==
  {result.input.resolved[i].id : i \in 1..Len(result.input.resolved)}

\* the edges joining the outcome entity o to one of the entities ids, in
\* either orientation
JoiningEdges(ids, o) ==
  {k \in DOMAIN edge :
     \/ edge[k].sourceEntityId \in ids /\ edge[k].targetEntityId = o
     \/ edge[k].targetEntityId \in ids /\ edge[k].sourceEntityId = o}

JoinedOutcomes(ids) ==
  {o \in DOMAIN entity :
     entity[o].entityType = Str_outcome /\ JoiningEdges(ids, o) # {}}

RECURSIVE SumWeights(_)
SumWeights(keys) ==
  IF keys = {} THEN 0
  ELSE LET k == CHOOSE x \in keys : TRUE
       IN edge[k].weight + SumWeights(keys \ {k})

\* C27: every outcome entity joined to a resolved input of simulate by an
\* edge input->outcome or outcome->input is among the outcomes, with the
\* summed weight of all those edges, also when every such edge is oriented
\* outcome->input.
C27_BothOrientationsMerged ==
  ret.call = "simulate" =>
    \A o \in JoinedOutcomes(resolvedIds(ret.output)) :
      \E i \in 1..Len(ret.output.outcomes) :
        /\ ret.output.outcomes[i].outcomeId = o
        /\ ret.output.outcomes[i].evidence.edgeWeight
             = SumWeights(JoiningEdges(resolvedIds(ret.output), o))

\* the probabilities added from 0 in list order
RECURSIVE ProbabilitySum(_, _)
ProbabilitySum(outcomes, sum) ==
  IF outcomes = <<>> THEN sum
  ELSE ProbabilitySum(Tail(outcomes), numAdd(sum, Head(outcomes).probability))

MergedWeights(outcomes) ==
  [i \in 1..Len(outcomes) |-> outcomes[i].evidence]

\* the outcomes are a distribution over distinct outcome entities: integer
\* weights >= 1, each probability the quotient weight / total weight, in
\* non-increasing order, totalObservations the total weight
IsDistribution(result) ==
  LET outcomes == result.outcomes
      total == sumOf(MergedWeights(outcomes), "edgeWeight")
  IN /\ result.evidence.totalObservations = total
     /\ \A i \in 1..Len(outcomes) :
          /\ outcomes[i].evidence.edgeWeight >= 1
          /\ outcomes[i].probability
               = numDivide(outcomes[i].evidence.edgeWeight, total)
     /\ \A i, j \in 1..Len(outcomes) :
          i < j => /\ outcomes[i].outcomeId # outcomes[j].outcomeId
                   /\ ~numLess(outcomes[i].probability, outcomes[j].probability)

Num_EPSILON == Num(FALSE, 0, 64)

IsPositiveMarker(outcome) ==
  \E p \in {<<"i","m","p","r","o","v","e","d">>,
            <<"s","u","c","c","e","s","s">>,
            <<"u","n","d","e","r","s","t","a","n","d","i","n","g">>,
            <<"m","a","s","t","e","r","y">>,
            <<"e","f","f","e","c","t","i","v","e">>} :
    \E k \in 0..(Len(outcome) - Len(p)) :
      SubSeq(toLowerCase(outcome), k + 1, k + Len(p)) = p

\* the deltas of the positive-marker outcomes added from 0 in list order
RECURSIVE MarkerShift(_, _)
MarkerShift(shifts, sum) ==
  IF shifts = <<>> THEN sum
  ELSE MarkerShift(Tail(shifts),
         IF IsPositiveMarker(Head(shifts).outcome)
           THEN numAdd(sum, Head(shifts).delta) ELSE sum)

MinObservations(result) ==
  IF result.original.evidence.totalObservations
       < result.alternative.evidence.totalObservations
    THEN result.original.evidence.totalObservations
    ELSE result.alternative.evidence.totalObservations

\* C29: a counterfactual whose smaller totalObservations is below 5 has
\* netEffect uncertain; otherwise netEffect is neutral when the summed
\* delta of the positive-marker outcomes is below 0.05 in absolute value,
\* positive when it is at least 0.05, negative when it is at most -0.05.
C29_NetEffect ==
  ret.call = "counterfactual" =>
    LET shift == MarkerShift(ret.output.comparison.outcomeShifts, Num_0)
        netEffect_ == ret.output.comparison.netEffect
    IN IF MinObservations(ret.output) < 5 THEN netEffect_ = "uncertain"
       ELSE IF numLess(abs(shift), Num_0_05) THEN netEffect_ = "neutral"
       ELSE IF shift.neg THEN netEffect_ = "negative"
       ELSE netEffect_ = "positive"

C29_Witness ==
  /\ ret.call = "counterfactual"
  /\ MinObservations(ret.output) >= 5
  /\ ret.output.comparison.netEffect = "positive"

\* the rows of the entity table an input names
EntitiesOf(input) == EntitiesNamed(trim(toLowerCase(input.name)))

\* C30: a counterfactual with base = [A] and change A -> B, B another name
\* than A, resolves the alternative to the entity of B and not to the
\* entity of A.
C30_AlternativeResolvesTo ==
  ( /\ ret.call = "counterfactual"
    /\ ret.input.baseEntities = <<ret.input.change.from>>
    /\ trim(toLowerCase(ret.input.change.to.name))
         # trim(toLowerCase(ret.input.change.from.name)) ) =>
    LET alternative ==
          {ret.output.alternative.input.resolved[i].id :
             i \in 1..Len(ret.output.alternative.input.resolved)}
    IN /\ EntitiesOf(ret.input.change.to) \subseteq alternative
       /\ EntitiesOf(ret.input.change.from) \cap alternative = {}


\* ------------------------------------------------- GraphService: getEntity
\* the entities some event of a trajectory of the account names
EntitiesOfAccount(nearAccountId) ==
  {e \in DOMAIN entity :
     \E t \in DOMAIN trajectory :
       /\ trajectory[t].nearAccountId = nearAccountId
       /\ \E i \in 1..Len(event[t]) : event[t][i].entityId = e}

\* C31: getEntity answers not-found unless an event of a trajectory of the
\* calling account names the entity, and what it answers names no entity
\* the account never touched.
C31_GetEntityPerAccount ==
  ret.call = "getEntity" =>
    LET nearAccountId == ret.input[1]
        known == EntitiesOfAccount(nearAccountId)
    IN /\ ret.input[2] \notin known => ret.output = NULL
       /\ ret.output # NULL =>
            /\ ret.output.entity.id \in known
            /\ \A i \in 1..Len(ret.output.connectedEntities) :
                 ret.output.connectedEntities[i].entity.id \in known


\* ------------------------------------------------ extractEntities, again
TuplesOf(entities) ==
  {<<entities[k].type, normalize(entities[k].name)>> :
     k \in 1..Len(entities)}

\* C32: the entities extracted from a text, written as tags [[type:name]]
\* and extracted again, are the same set of (type, normalizedName).
C32_TagsRoundTrip ==
  ret.call = "extractEmitted" => TuplesOf(ret.output) = TuplesOf(ret.input)

\* ------------------------------------------------ strengthenEdges, again
\* the entity ids of the touch events of a trajectory, in the order logged
RECURSIVE RawTouches(_)
RawTouches(rows) ==
  IF rows = <<>> THEN <<>>
  ELSE LET rest == RawTouches(Tail(rows)) IN
       IF Head(rows).eventType = "touch" /\ Head(rows).entityId # NoId
         THEN <<Head(rows).entityId>> \o rest ELSE rest

\* the list with every later occurrence of an element removed
RECURSIVE FirstOccurrences(_)
FirstOccurrences(list) ==
  IF list = <<>> THEN <<>>
  ELSE <<Head(list)>>
         \o FirstOccurrences(SelectSeq(Tail(list), LAMBDA x : x # Head(list)))

\* the weight and trajectoryCount an edge key has in a table, 0 when absent
WeightOf(edg, key) == IF key \in DOMAIN edg THEN edg[key].weight ELSE 0
TrajectoryCountOf(edg, key) ==
  IF key \in DOMAIN edg THEN edg[key].trajectoryCount ELSE 0

\* the strategy -> outcome pairs among the entities of a completed trajectory
OutcomePairs(infos) ==
  {<<infos[i].id, infos[j].id>> : i, j \in 1..Len(infos)} \cap
  {<<a, b>> \in (DOMAIN entity) \X (DOMAIN entity) :
     entity[a].entityType = Str_strategy /\ entity[b].entityType = Str_outcome}

\* a chat turn has just run completeTrajectory
TurnCompleted == turn.pc = "complete" /\ turn'.pc = "persist"

TouchedOrDiscovered(rows) ==
  {rows[i].entityId : i \in {j \in 1..Len(rows) :
      rows[j].eventType \in {"touch", "discover"} /\ rows[j].entityId # NoId}}

\* the unordered pairs of distinct entities of a set, as co-occurrence keys
PairsOf(ids) == {<<a, b>> \in ids \X ids : a < b}

\* the three counters of a co-occurrence key in a table, 0 when absent
CountersOf(cooc, key) ==
  IF key \in DOMAIN cooc
    THEN <<cooc[key].count, cooc[key].windowCount, cooc[key].trajectoryCount>>
    ELSE <<0, 0, 0>>

\* C34: a completeTrajectory adds exactly 1 to count, windowCount and
\* trajectoryCount of the co-occurrence row of every unordered pair of
\* distinct entities among touched and discovered and leaves every other
\* row as it was; after it every row has count = windowCount =
\* trajectoryCount >= 1.
C34_CooccurrenceCounters ==
  [][TurnCompleted =>
       LET pairs == PairsOf(TouchedOrDiscovered(event[turn.trajectoryId]))
       IN /\ \A key \in pairs :
               LET old == CountersOf(cooccurrence, key)
               IN CountersOf(cooccurrence', key) =
                    <<old[1] + 1, old[2] + 1, old[3] + 1>>
          /\ \A key \in DOMAIN cooccurrence' \ pairs :
               key \in DOMAIN cooccurrence
                 /\ cooccurrence'[key] = cooccurrence[key]
          /\ \A key \in DOMAIN cooccurrence' :
               /\ cooccurrence'[key].count = cooccurrence'[key].windowCount
               /\ cooccurrence'[key].count = cooccurrence'[key].trajectoryCount
               /\ cooccurrence'[key].count >= 1]_vars

\* a second turn has incremented the row of a pair the first had inserted
\* and left the row of another pair alone
C34_Witness ==
  /\ turn.pc = "persist"
  /\ ret.call = "completeTrajectory"
  /\ \E key \in PairsOf(TouchedOrDiscovered(event[turn.trajectoryId])) :
       cooccurrence[key].count = 2
  /\ \E key \in DOMAIN cooccurrence :
       key \notin PairsOf(TouchedOrDiscovered(event[turn.trajectoryId]))

\* ------------------------------------------------- the stream, once more
\* the eventType of the trajectory events in a list of stream events that
\* stand for an event row (simulate has none)
RECURSIVE LoggedTypesYielded(_)
LoggedTypesYielded(events) ==
  IF events = <<>> THEN <<>>
  ELSE LET rest == LoggedTypesYielded(Tail(events)) IN
       IF Head(events).type = "trajectory_event"
            /\ Head(events).eventType \in {"touch", "discover", "reason", "decide"}
         THEN <<Head(events).eventType>> \o rest ELSE rest

\* the eventType of the rows of a trajectory, start left out
RowTypes(rows) ==
  LET types == [i \in 1..Len(rows) |-> rows[i].eventType]
  IN SelectSeq(types, LAMBDA t : t # "start")

\* C35: in a streaming turn every trajectory_event of type touch, discover,
\* reason or decide that has been yielded stands for an event row already
\* written, in the same order, and complete has been yielded only with the
\* trajectory completed and the assistant message of the trajectory saved.
C35_YieldedAfterPersisted ==
  request.handler = "chatStream" =>
    LET types == LoggedTypesYielded(request.yielded)
        rows == IF request.trajectoryId \in DOMAIN event
                  THEN RowTypes(event[request.trajectoryId]) ELSE <<>>
    IN /\ Len(types) <= Len(rows)
       /\ types = SubSeq(rows, 1, Len(types))
       /\ (\E i \in 1..Len(request.yielded) :
             request.yielded[i].type = "complete")
            => /\ trajectory[request.trajectoryId].completedAt = TRUE
               /\ request.trajectoryId \notin DOMAIN sequenceCounters
               /\ \E k \in 1..Len(message) :
                    /\ message[k].role = "assistant"
                    /\ message[k].trajectoryId = request.trajectoryId

\* a stream that yielded touch, reason, decide and at last complete
C35_Witness ==
  /\ request.handler = "chatStream"
  /\ {"touch", "reason", "decide"}
       \subseteq Range(LoggedTypesYielded(request.yielded))
  /\ request.yielded[Len(request.yielded)].type = "complete"

\* --------------------------------------------- concurrent upserts, again
\* the upserts a finished completeTrajectory of caller w made on an edge
\* key: one of strengthenEdges per entry of edgesTraversed, one of
\* trackOutcomes when the key joins a strategy to an outcome of the call
EdgeUpsertsBy(w, key) ==
  Cardinality({k \in 1..Len(worker[w].edges) : worker[w].edges[k].id = key})
    + (IF /\ key[1] \in Range(worker[w].all)
          /\ key[2] \in Range(worker[w].all)
          /\ entity[key[1]].entityType = Str_strategy
          /\ entity[key[2]].entityType = Str_outcome
         THEN 1 ELSE 0)

\* the upserts it made on a co-occurrence key
CooccurrenceUpsertsBy(w, key) ==
  IF key[1] \in Range(worker[w].all) /\ key[2] \in Range(worker[w].all)
    THEN 1 ELSE 0

\* both callers touched the strategy s and then the outcome o, and both
\* completeTrajectory calls have returned
BothTraversed ==
  \A w \in Workers :
    worker[w].pc = "done" /\ worker[w].script = <<Mention_S, Mention_o>>

\* C36: whatever the interleaving of two completeTrajectory calls that
\* traverse the same edge and the same pair, no increment is lost: the
\* weight of the edge and the count of the pair are what they were (0)
\* plus one for every upsert the two calls made.
C36_NoLostIncrement ==
  BothTraversed =>
    /\ \A key \in DOMAIN edge :
         edge[key].weight = EdgeUpsertsBy(1, key) + EdgeUpsertsBy(2, key)
    /\ \A key \in DOMAIN cooccurrence :
         cooccurrence[key].count =
           CooccurrenceUpsertsBy(1, key) + CooccurrenceUpsertsBy(2, key)

\* ------------------------------------------------ differentiators, again
\* the candidate rows of the simulate that has just answered
CandidatesOfAnswer ==
  candidateRows(entity, cooccurrence,
    {ret.output.input.resolved[i].id :
       i \in 1..Len(ret.output.input.resolved)})

C37_WitnessNoPatterns ==
  /\ ret.call = "simulate"
  /\ ret.output.input.resolved # <<>>
  /\ ret.output.evidence.hasPatterns = FALSE

\* ------------------------------------------------------ reads per account
\* C38: getConversation and getTrajectory answer with data only when the
\* conversation or trajectory is one of the calling account, and a chat
\* turn appends messages only to a conversation of the account of the turn.
C38_ReadsAndTurnsPerAccount ==
  /\ (ret.call = "getConversation" /\ ret.output # NULL)
       => conversation[ret.input[2]].nearAccountId = ret.input[1]
  /\ (ret.call = "getTrajectory" /\ ret.output # NULL)
       => trajectory[ret.input[2]].nearAccountId = ret.input[1]
  /\ \A k \in 1..Len(message) :
       message[k].trajectoryId # NoId =>
         trajectory[message[k].trajectoryId].nearAccountId
           = conversation[message[k].conversationId].nearAccountId

\* ----------------------------------------------- the list for the model
\* the messages of the conversation of the turn before the turn saved its own
HistoryBeforeTurn ==
  LET rows == SelectSeq(message, LAMBDA m : m.conversationId = turn.convId)
  IN getConversationHistory(SubSeq(rows, 1, Len(rows) - 1), turn.convId, 10)

\* C39: the list handed to the language model is the system prompt, the
\* history as it was before the turn saved the user message, and the user
\* message: the current message is in it exactly once.
C39_CurrentMessageOnce ==
  turn.pc = "llm" =>
    turn.messages = llmMessages(HistoryBeforeTurn, turn.message)

\* ------------------------------------------- contributorCount of the graph
\* the accounts whose trajectories name both entities of a pair
AccountsOfPair(a, b) ==
  {trajectory[t].nearAccountId : t \in {x \in DOMAIN trajectory :
      /\ trajectory[x].completedAt = TRUE
      /\ \E i \in 1..Len(event[x]) : event[x][i].entityId = a
      /\ \E i \in 1..Len(event[x]) : event[x][i].entityId = b}}

\* C40: the contributorCount of every edge and every co-occurrence row is
\* the 1 it was inserted with, however many accounts have traversed it, and
\* simulate reports contributorCount 1 in the evidence of every outcome.
C40_ContributorCountStaysOne ==
  /\ \A key \in DOMAIN edge : edge[key].contributorCount = 1
  /\ \A key \in DOMAIN cooccurrence : cooccurrence[key].contributorCount = 1
  /\ ret.call = "simulate" =>
       \A i \in 1..Len(ret.output.outcomes) :
         ret.output.outcomes[i].evidence.contributorCount = 1

\* simulate answered with an outcome reached over two edges, and an edge
\* and a co-occurrence row were written by turns of two accounts
C40_Witness ==
  /\ ret.call = "simulate"
  /\ \E i \in 1..Len(ret.output.outcomes) :
       ret.output.outcomes[i].evidence.edgeWeight >= 2
  /\ Len(ret.output.input.resolved) >= 2
  /\ \E key \in DOMAIN edge :
       /\ Cardinality(AccountsOfPair(key[1], key[2])) = 2
       /\ edge[key].weight >= 2
  /\ \E key \in DOMAIN cooccurrence :
       /\ Cardinality(AccountsOfPair(key[1], key[2])) = 2
       /\ cooccurrence[key].count = 2

====
